---- MODULE Spec2Model ----
(***************************************************************************)
(* Model of the Fortify-AI analysis engine: the Architecture model and its *)
(* parser, the dependency-graph builder, the scenario selector, the        *)
(* failure simulator with its severity scoring, the security rule engine   *)
(* and the orchestrated pipeline with its Run Context event log.           *)
(*                                                                         *)
(* Scores are integers.  compute_severity accumulates in thousandths       *)
(* (0.5 is 500) and round(score, 2) yields hundredths (9.0 is 900).        *)
(***************************************************************************)
EXTENDS Integers, Sequences, FiniteSets, TLC

\* ------------------------------------------------------------------ bounds
\* Largest total number of depends_on entries of an input of the "graph" class.
MaxEdges == 2
\* Largest number of components of an input of the "attr" class.
MaxAttrComps == 3
\* Largest number of components of an input of the "severity" class.
MaxSevComps == 6

\* largest number of components of a "remediation" document
MaxRemComps == 3
\* largest number of entries of a "fields" document
MaxFieldComps == 2
\* number of analysis runs that are started concurrently
MaxRuns == 2

\* Names given to the components of an input document, in document order
\* (insertion order differs from sorted order on purpose).
NameSeq == <<"b", "a", "c", "d", "e", "f", "g", "h">>
\* A dependency target that never names a component.
Phantom == "x"
\* Python's string order on the names in use (upper case sorts first).
Alphabet == <<"D", "G", "S", "a", "b", "c", "d", "e", "f", "g", "h", "x">>

\* ------------------------------------------------ architecture_model.py
Types == {"service", "database", "gateway", "queue", "external_api", "web_client"}
Criticalities == {"low", "medium", "high"}

Component(name, ctype, public, depends_on, criticality) ==
  [name |-> name, ctype |-> ctype, public |-> public,
   depends_on |-> depends_on, criticality |-> criticality]

\* Architecture.components is an insertion-ordered dict: a sequence of
\* Component records with pairwise distinct names.
Keys(a) == {a[i].name : i \in 1..Len(a)}
KeyList(a) == [i \in 1..Len(a) |-> a[i].name]
Get(a, n) == a[CHOOSE i \in 1..Len(a) : a[i].name = n]

\* components[name] = Component(...): a new key is appended, an existing key
\* keeps its position and takes the new value.
PutComponent(a, c) ==
  IF c.name \in Keys(a)
    THEN [i \in 1..Len(a) |-> IF a[i].name = c.name THEN c ELSE a[i]]
    ELSE Append(a, c)

\* One parsed entry of the input document: absent fields take their defaults.
FromDictEntry(raw) ==
  Component(raw.name,
            IF "type" \in DOMAIN raw THEN raw.type ELSE "service",
            IF "public" \in DOMAIN raw THEN raw.public ELSE FALSE,
            IF "depends_on" \in DOMAIN raw THEN raw.depends_on ELSE <<>>,
            IF "criticality" \in DOMAIN raw THEN raw.criticality ELSE "medium")

\* dict update d[k] = v, adding the key when absent
DictSet(d, k, v) == [x \in DOMAIN d \cup {k} |-> IF x = k THEN v ELSE d[x]]

RECURSIVE AddDeps_known_only(_, _, _, _)
\* variant: a dependency on an unknown name is left out of the reverse graph
AddDeps_known_only(g, name, deps, j) ==
  IF j > Len(deps) THEN g
  ELSE LET dep == deps[j]
           fwd == DictSet(g.forward, name, Append(g.forward[name], dep))
           rev == IF dep \in DOMAIN g.reverse
                    THEN DictSet(g.reverse, dep, Append(g.reverse[dep], name))
                    ELSE g.reverse
       IN AddDeps_known_only([forward |-> fwd, reverse |-> rev], name, deps, j + 1)

RECURSIVE AddDeps_both_ways(_, _, _, _)
\* variant: the reverse graph also records the dependency under the
\* component, so that a traversal follows edges in both directions
AddDeps_both_ways(g, name, deps, j) ==
  IF j > Len(deps) THEN g
  ELSE LET dep == deps[j]
           fwd == DictSet(g.forward, name, Append(g.forward[name], dep))
           rv0 == IF dep \in DOMAIN g.reverse THEN g.reverse
                  ELSE DictSet(g.reverse, dep, <<>>)
           rv1 == DictSet(rv0, dep, Append(rv0[dep], name))
           rev == DictSet(rv1, name, Append(rv1[name], dep))
       IN AddDeps_both_ways([forward |-> fwd, reverse |-> rev], name, deps, j + 1)

RECURSIVE AddDeps(_, _, _, _)
\* inner loop of build_dependency_graphs over comp.depends_on, from index j
AddDeps(g, name, deps, j) ==
  IF j > Len(deps) THEN g
  ELSE LET dep == deps[j]
           fwd == DictSet(g.forward, name, Append(g.forward[name], dep))
           rv0 == IF dep \in DOMAIN g.reverse THEN g.reverse
                  ELSE DictSet(g.reverse, dep, <<>>)
           rev == DictSet(rv0, dep, Append(rv0[dep], name))
       IN AddDeps([forward |-> fwd, reverse |-> rev], name, deps, j + 1)

RECURSIVE BuildLoop(_, _, _)
\* outer loop of build_dependency_graphs over components.items(), from index i
BuildLoop(g, a, i) ==
  IF i > Len(a) THEN g
  ELSE LET g1 == [forward |-> DictSet(g.forward, a[i].name, <<>>),
                  reverse |-> g.reverse]
       IN BuildLoop(AddDeps(g1, a[i].name, a[i].depends_on, 1), a, i + 1)

RECURSIVE SetDefaults(_, _, _)
\* the closing loop: setdefault(name, []) on both dicts
SetDefaults(g, a, i) ==
  IF i > Len(a) THEN g
  ELSE LET n == a[i].name
           fwd == IF n \in DOMAIN g.forward THEN g.forward ELSE DictSet(g.forward, n, <<>>)
           rev == IF n \in DOMAIN g.reverse THEN g.reverse ELSE DictSet(g.reverse, n, <<>>)
       IN SetDefaults([forward |-> fwd, reverse |-> rev], a, i + 1)

\* variant: the reverse graph starts empty and no defaults are set
build_dependency_graphs_nodefaults(a) ==
  BuildLoop([forward |-> [x \in {} |-> <<>>], reverse |-> [x \in {} |-> <<>>]], a, 1)

build_dependency_graphs(a) ==
  LET g0 == [forward |-> [x \in {} |-> <<>>],
             reverse |-> [n \in Keys(a) |-> <<>>]]
  IN SetDefaults(BuildLoop(g0, a, 1), a, 1)

\* ----------------------------------------------------------- simulation.py
\* outcome of a call: a returned value or a raised exception
Return(v) == [raised |-> "none", value |-> v]
Raise(e) == [raised |-> e]

\* The orders in which list(set) may enumerate a set of names (string hashing
\* differs from process to process): ascending or descending here.
HashSeeds == {0, 1}
Reverse(s) == [i \in 1..Len(s) |-> s[Len(s) + 1 - i]]
Sorted(S) == SelectSeq(Alphabet, LAMBDA n : n \in S)
ListOfSet(S, seed) == IF seed = 0 THEN Sorted(S) ELSE Reverse(Sorted(S))

\* variant: the entrypoints taken to be the gateways and web clients
get_public_entrypoints_by_type(a) ==
  SelectSeq(KeyList(a), LAMBDA n : Get(a, n).ctype \in {"gateway", "web_client"})

get_public_entrypoints(a) ==
  SelectSeq(KeyList(a), LAMBDA n : Get(a, n).public)

critical_types == {"database", "gateway", "external_api", "queue"}

\* str.lower() on the criticality values that occur in inputs
Lower(s) ==
  CASE s \in {"high", "High", "HIGH"} -> "high"
    [] s \in {"medium", "Medium", "MEDIUM"} -> "medium"
    [] s \in {"low", "Low", "LOW"} -> "low"
    [] OTHER -> s

\* round(x, 2) of a score held in thousandths, giving hundredths (ties to even)
Round2(m) ==
  LET q == m \div 10
      r == m % 10
  IN IF r > 5 \/ (r = 5 /\ q % 2 = 1) THEN q + 1 ELSE q

RECURSIVE SeverityLoop(_, _, _, _)
\* the loop of compute_severity over impacted_components, from index j
SeverityLoop(a, imp, j, score) ==
  IF j > Len(imp) THEN score
  ELSE LET comp == Get(a, imp[j])
           s1 == IF comp.ctype \in critical_types THEN score + 500 ELSE score
           crit == Lower(comp.criticality)
           s2 == IF crit = "high" THEN s1 + 1000
                 ELSE IF crit = "medium" THEN s1 + 500
                 ELSE s1
       IN SeverityLoop(a, imp, j + 1, s2)

Min(x, y) == IF x < y THEN x ELSE y
Max(x, y) == IF x > y THEN x ELSE y

\* variant: no clamp of the total
compute_severity_unclamped(a, impacted_components, user_visible_impact) ==
  IF \E j \in 1..Len(impacted_components) : impacted_components[j] \notin Keys(a)
    THEN Raise("KeyError")
    ELSE LET base == Min(Len(impacted_components) * 1000, 5000)
             vis == IF user_visible_impact THEN base + 3000 ELSE base
             total == SeverityLoop(a, impacted_components, 1, vis)
         IN Return(Round2(total))

\* variant: no cap of the fan-out term
compute_severity_uncapped_base(a, impacted_components, user_visible_impact) ==
  IF \E j \in 1..Len(impacted_components) : impacted_components[j] \notin Keys(a)
    THEN Raise("KeyError")
    ELSE LET base == Len(impacted_components) * 1000
             vis == IF user_visible_impact THEN base + 3000 ELSE base
             total == SeverityLoop(a, impacted_components, 1, vis)
             capped == IF total > 10000 THEN 10000 ELSE total
             clamped == IF capped < 0 THEN 0 ELSE capped
         IN Return(Round2(clamped))

compute_severity(a, impacted_components, user_visible_impact) ==
  IF \E j \in 1..Len(impacted_components) : impacted_components[j] \notin Keys(a)
    THEN Raise("KeyError")
    ELSE LET base == Min(Len(impacted_components) * 1000, 5000)
             vis == IF user_visible_impact THEN base + 3000 ELSE base
             total == SeverityLoop(a, impacted_components, 1, vis)
             capped == IF total > 10000 THEN 10000 ELSE total
             clamped == IF capped < 0 THEN 0 ELSE capped
         IN Return(Round2(clamped))

\* variant: the loop over the dependents stops after the first one it pushes
PushDependents_first_only(stack, dependents, impacted, j) ==
  LET fresh == SelectSeq(dependents, LAMBDA d : d \notin impacted)
  IN IF fresh = <<>> THEN stack ELSE Append(stack, fresh[1])

RECURSIVE PushDependents(_, _, _, _)
\* for dependent in reverse_graph.get(current, []): push when not yet impacted
PushDependents(stack, dependents, impacted, j) ==
  IF j > Len(dependents) THEN stack
  ELSE PushDependents(IF dependents[j] \notin impacted
                        THEN Append(stack, dependents[j]) ELSE stack,
                      dependents, impacted, j + 1)

RECURSIVE Traverse(_, _, _)
\* the while-stack loop of simulate_failure
Traverse(reverse_graph, stack, impacted) ==
  IF stack = <<>> THEN impacted
  ELSE LET current == stack[Len(stack)]
           rest == SubSeq(stack, 1, Len(stack) - 1)
       IN IF current \in impacted THEN Traverse(reverse_graph, rest, impacted)
          ELSE LET imp1 == impacted \cup {current}
                   dependents == IF current \in DOMAIN reverse_graph
                                   THEN reverse_graph[current] ELSE <<>>
               IN Traverse(reverse_graph,
                           PushDependents(rest, dependents, imp1, 1), imp1)

\* variant: a popped name is processed again when it is impacted already
TraverseIteration_revisits(reverse_graph, stack, impacted) ==
  LET current == stack[Len(stack)]
      rest == SubSeq(stack, 1, Len(stack) - 1)
      imp1 == impacted \cup {current}
      dependents == IF current \in DOMAIN reverse_graph
                      THEN reverse_graph[current] ELSE <<>>
  IN [stack |-> PushDependents(rest, dependents, imp1, 1), impacted |-> imp1,
      added |-> <<current>>]

\* one iteration of the while-stack loop of simulate_failure: the stack and
\* the impacted set after it, and the name it passed to impacted.add, if any
TraverseIteration(reverse_graph, stack, impacted) ==
  LET current == stack[Len(stack)]
      rest == SubSeq(stack, 1, Len(stack) - 1)
  IN IF current \in impacted
       THEN [stack |-> rest, impacted |-> impacted, added |-> <<>>]
       ELSE LET imp1 == impacted \cup {current}
                dependents == IF current \in DOMAIN reverse_graph
                                THEN reverse_graph[current] ELSE <<>>
            IN [stack |-> PushDependents(rest, dependents, imp1, 1),
                impacted |-> imp1, added |-> <<current>>]

\* simulate_failure after its loop: visibility, severity and the result
FailureResultOf(a, failed_component, impacted, seed) ==
  LET impacted_list == ListOfSet(impacted, seed)
      public_entrypoints == get_public_entrypoints(a)
      user_visible_impact ==
        \E i \in 1..Len(public_entrypoints) : public_entrypoints[i] \in impacted
      sev == compute_severity(a, impacted_list, user_visible_impact)
  IN IF sev.raised # "none" THEN sev
     ELSE Return([failed_component |-> failed_component,
                  impacted_components |-> Sorted(impacted),
                  user_visible_impact |-> user_visible_impact,
                  severity_score |-> sev.value,
                  notes |-> IF user_visible_impact THEN "user-facing affected"
                            ELSE "no public impact"])

\* variant: the failed component is not validated
simulate_failure_unchecked(a, failed_component, seed) ==
  LET g == build_dependency_graphs(a)
      impacted == Traverse(g.reverse, <<failed_component>>, {})
      impacted_list == ListOfSet(impacted, seed)
      public_entrypoints == get_public_entrypoints(a)
      user_visible_impact ==
        \E i \in 1..Len(public_entrypoints) : public_entrypoints[i] \in impacted
      sev == compute_severity(a, impacted_list, user_visible_impact)
  IN IF sev.raised # "none" THEN sev
     ELSE Return([failed_component |-> failed_component,
                  impacted_components |-> Sorted(impacted),
                  user_visible_impact |-> user_visible_impact,
                  severity_score |-> sev.value,
                  notes |-> IF user_visible_impact THEN "user-facing affected"
                            ELSE "no public impact"])

\* variant: the traversal follows the forward graph
simulate_failure_forward(a, failed_component, seed) ==
  IF failed_component \notin Keys(a) THEN Raise("ValueError")
  ELSE LET g == build_dependency_graphs(a)
           impacted == Traverse(g.forward, <<failed_component>>, {})
           impacted_list == ListOfSet(impacted, seed)
           public_entrypoints == get_public_entrypoints(a)
           user_visible_impact ==
             \E i \in 1..Len(public_entrypoints) : public_entrypoints[i] \in impacted
           sev == compute_severity(a, impacted_list, user_visible_impact)
       IN IF sev.raised # "none" THEN sev
          ELSE Return([failed_component |-> failed_component,
                       impacted_components |-> Sorted(impacted),
                       user_visible_impact |-> user_visible_impact,
                       severity_score |-> sev.value,
                       notes |-> IF user_visible_impact THEN "user-facing affected"
                                 ELSE "no public impact"])

simulate_failure(a, failed_component, seed) ==
  IF failed_component \notin Keys(a) THEN Raise("ValueError")
  ELSE LET g == build_dependency_graphs(a)
           impacted == Traverse(g.reverse, <<failed_component>>, {})
           impacted_list == ListOfSet(impacted, seed)
           public_entrypoints == get_public_entrypoints(a)
           user_visible_impact ==
             \E i \in 1..Len(public_entrypoints) : public_entrypoints[i] \in impacted
           sev == compute_severity(a, impacted_list, user_visible_impact)
       IN IF sev.raised # "none" THEN sev
          ELSE Return([failed_component |-> failed_component,
                       impacted_components |-> Sorted(impacted),
                       user_visible_impact |-> user_visible_impact,
                       severity_score |-> sev.value,
                       notes |-> IF user_visible_impact THEN "user-facing affected"
                                 ELSE "no public impact"])

\* variant: the component's type is collected in place of its name
generate_failure_scenarios_types(a) ==
  LET scenarios == SelectSeq([i \in 1..Len(a) |-> a[i].ctype],
                             LAMBDA t : t \in critical_types)
  IN IF scenarios = <<>> THEN KeyList(a) ELSE scenarios

\* variant: no fallback to all components
generate_failure_scenarios_nofallback(a) ==
  SelectSeq(KeyList(a), LAMBDA n : Get(a, n).ctype \in critical_types)

generate_failure_scenarios(a) ==
  LET scenarios == SelectSeq(KeyList(a), LAMBDA n : Get(a, n).ctype \in critical_types)
  IN IF scenarios = <<>> THEN KeyList(a) ELSE scenarios

\* ---------------------------------------------------- security_analysis.py
SecurityRisk(component, risk_type, severity, suggestion) ==
  [component |-> component, risk_type |-> risk_type,
   severity |-> severity, suggestion |-> suggestion]

\* one rule of analyze_security: append the risk unless its key was seen
ApplyRule(st, cond, key, risk) ==
  IF cond /\ key \notin st.seen
    THEN [risks |-> Append(st.risks, risk), seen |-> st.seen \cup {key}]
    ELSE st

RECURSIVE SecurityLoop_external_as_dos(_, _, _)
\* variant: the third rule reports its risk under the first rule's risk type,
\* and the first rule also covers a public external_api
SecurityLoop_external_as_dos(a, i, st) ==
  IF i > Len(a) THEN st.risks
  ELSE LET comp == a[i]
           s1 == ApplyRule(st,
                   comp.public /\ comp.ctype \in {"gateway", "service", "web_client",
                                                  "external_api"},
                   <<comp.name, "DoS">>,
                   SecurityRisk(comp.name, "Denial-of-Service", "High", "rate limiting"))
           s2 == ApplyRule(s1,
                   comp.public /\ comp.ctype = "database",
                   <<comp.name, "Data Exposure">>,
                   SecurityRisk(comp.name, "Data Exposure", "High", "private subnet"))
           s3 == ApplyRule(s2,
                   comp.ctype = "external_api",
                   <<comp.name, "External API">>,
                   SecurityRisk(comp.name, "Denial-of-Service", "Medium",
                                "timeouts and fallbacks"))
       IN SecurityLoop_external_as_dos(a, i + 1, s3)

RECURSIVE SecurityLoop_dos_any_type(_, _, _)
\* variant: the Denial-of-Service rule applies to a public component of any type
SecurityLoop_dos_any_type(a, i, st) ==
  IF i > Len(a) THEN st.risks
  ELSE LET comp == a[i]
           s1 == ApplyRule(st,
                   comp.public,
                   <<comp.name, "DoS">>,
                   SecurityRisk(comp.name, "Denial-of-Service", "High", "rate limiting"))
           s2 == ApplyRule(s1,
                   comp.public /\ comp.ctype = "database",
                   <<comp.name, "Data Exposure">>,
                   SecurityRisk(comp.name, "Data Exposure", "High", "private subnet"))
           s3 == ApplyRule(s2,
                   comp.ctype = "external_api",
                   <<comp.name, "External API">>,
                   SecurityRisk(comp.name, "External Dependency Risk", "Medium",
                                "timeouts and fallbacks"))
       IN SecurityLoop_dos_any_type(a, i + 1, s3)

RECURSIVE SecurityLoop(_, _, _)
\* the loop of analyze_security over arch.components.values(), from index i
SecurityLoop(a, i, st) ==
  IF i > Len(a) THEN st.risks
  ELSE LET comp == a[i]
           s1 == ApplyRule(st,
                   comp.public /\ comp.ctype \in {"gateway", "service", "web_client"},
                   <<comp.name, "DoS">>,
                   SecurityRisk(comp.name, "Denial-of-Service", "High", "rate limiting"))
           s2 == ApplyRule(s1,
                   comp.public /\ comp.ctype = "database",
                   <<comp.name, "Data Exposure">>,
                   SecurityRisk(comp.name, "Data Exposure", "High", "private subnet"))
           s3 == ApplyRule(s2,
                   comp.ctype = "external_api",
                   <<comp.name, "External API">>,
                   SecurityRisk(comp.name, "External Dependency Risk", "Medium",
                                "timeouts and fallbacks"))
       IN SecurityLoop(a, i + 1, s3)

analyze_security(a) == SecurityLoop(a, 1, [risks |-> <<>>, seen |-> {}])

\* --------------------------------------------------------- orchestrator.py
None == [kind |-> "None"]

Event(agent_name, step) == [agent_name |-> agent_name, step |-> step]

ScenarioSummary(result) ==
  [scenario_name |-> <<result.failed_component, "FAILURE">>,
   failed_component |-> result.failed_component,
   severity |-> result.severity_score,
   user_visible_impact |-> result.user_visible_impact,
   impacted_components |->
     Sorted({result.impacted_components[i] : i \in 1..Len(result.impacted_components)})]

RECURSIVE RunScenarios(_, _, _, _, _)
\* the loop of FailureSimulationAgent.run over scenario_ids, from index i;
\* an exception of simulate_failure leaves the loop and the method
RunScenarios(a, scenario_ids, i, scenario_summaries, seed) ==
  IF i > Len(scenario_ids) THEN Return(scenario_summaries)
  ELSE LET result == simulate_failure(a, scenario_ids[i], seed)
       IN IF result.raised # "none" THEN result
          ELSE RunScenarios(a, scenario_ids, i + 1,
                            Append(scenario_summaries, ScenarioSummary(result.value)),
                            seed)

RECURSIVE SumSeverity(_, _)
SumSeverity(scs, i) == IF i > Len(scs) THEN 0 ELSE scs[i].severity + SumSeverity(scs, i + 1)

MaxSeverity(scs) ==
  CHOOSE m \in {scs[i].severity : i \in 1..Len(scs)} :
    \A i \in 1..Len(scs) : scs[i].severity <= m

\* round(num/den, 2 decimals) of a value whose hundredths are num/den (ties to even)
RoundDiv(num, den) ==
  LET q == num \div den
      r2 == 2 * (num % den)
  IN IF r2 > den \/ (r2 = den /\ q % 2 = 1) THEN q + 1 ELSE q

\* variant: the resilience score is cut to two decimals, not rounded
BuildReport_truncated(scs, risks) ==
  LET n == Len(scs)
      resNum == IF n > 0 THEN 1000 * n - SumSeverity(scs, 1) ELSE 1000
      resDen == IF n > 0 THEN n ELSE 1
      worst_severity == IF n > 0 THEN MaxSeverity(scs) ELSE 0
  IN [kind |-> "SystemReport",
      scenarios |-> scs,
      security_risks |-> risks,
      overall_resilience_score |-> Max(0, resNum) \div resDen,
      worst_case_severity |-> Round2(worst_severity * 10)]

\* ReportingAgent.run: scores in hundredths
BuildReport(scs, risks) ==
  LET n == Len(scs)
      \* 10.0 - avg_severity, as the fraction resNum / resDen of hundredths
      resNum == IF n > 0 THEN 1000 * n - SumSeverity(scs, 1) ELSE 1000
      resDen == IF n > 0 THEN n ELSE 1
      worst_severity == IF n > 0 THEN MaxSeverity(scs) ELSE 0
  IN [kind |-> "SystemReport",
      scenarios |-> scs,
      security_risks |-> risks,
      overall_resilience_score |-> RoundDiv(Max(0, resNum), resDen),
      worst_case_severity |-> Round2(worst_severity * 10)]

\* ------------------------------------------------------------ llm_client.py
\* The advisory collaborator of one call of RemediationAgent.run is a record:
\*   available  whether the import of LLMClient succeeded
\*   construct  "ok" or "raises": the outcome of LLMClient()
\*   response   "raises" when generate_content raises, or the kind of text it
\*              returned: "malformed" (not JSON), "object" (JSON, not a list)
\*              or "array" (a JSON list)
\*   items      the elements of the list: [t |-> "dict", v |-> the object] or
\*              [t |-> "other"] for an element that is no object
\* LLMClient.generate_remediation_suggestions
generate_remediation_suggestions(llm) ==
  IF llm.response = "raises" THEN Raise("Exception")
  ELSE IF llm.response = "array"
    THEN Return(SelectSeq(llm.items, LAMBDA d : d.t = "dict"))
    ELSE Return(<<>>)

\* ------------------------------------------------------ remediation_agent.py
\* title and details are texts: the pieces of the formatted string
RemediationSuggestion(category, target, priority, title, details) ==
  [category |-> category, target |-> target, priority |-> priority,
   title |-> title, details |-> details]

\* dict.get(key, default)
DictGet(d, key, default) == IF key \in DOMAIN d THEN d[key] ELSE default

\* variant: the threshold of pass 1 excludes 4.0
SystemPass_exclusive(rep) ==
  IF rep.overall_resilience_score < 400
    THEN << RemediationSuggestion("resilience", "system", "high",
                                  <<"Improve overall fault tolerance">>,
                                  <<"The overall resilience score is low">>) >>
    ELSE <<>>

\* pass 1 of RemediationAgent.run
SystemPass(rep) ==
  IF rep.overall_resilience_score <= 400
    THEN << RemediationSuggestion("resilience", "system", "high",
                                  <<"Improve overall fault tolerance">>,
                                  <<"The overall resilience score is low">>) >>
    ELSE <<>>

\* the suggestion of pass 2 for one scenario whose component is comp
ScenarioSuggestion(comp, scenario) ==
  LET comp_name == scenario.failed_component
  IN CASE comp.ctype = "database" ->
            RemediationSuggestion("resilience", comp_name, "high",
              <<"Add replication and backup for", comp_name>>,
              <<"When", comp_name, "fails, it impacts",
                Len(scenario.impacted_components), "components">>)
       [] comp.ctype = "gateway" ->
            RemediationSuggestion("resilience", comp_name, "high",
              <<"Eliminate single point of failure at", comp_name>>,
              <<comp_name, "is a critical gateway">>)
       [] comp.ctype = "external_api" ->
            RemediationSuggestion("resilience", comp_name, "high",
              <<"Introduce circuit breakers and fallbacks for", comp_name>>,
              <<comp_name, "is an external dependency">>)
       [] OTHER ->
            RemediationSuggestion("resilience", comp_name, "medium",
              <<"Harden", comp_name, "against failures">>,
              <<comp_name, "shows a high-severity failure scenario">>)

RECURSIVE ScenarioPass_exclusive(_, _, _)
\* variant: the threshold of pass 2 excludes 8.0
ScenarioPass_exclusive(a, scs, i) ==
  IF i > Len(scs) THEN <<>>
  ELSE LET scenario == scs[i]
           emitted ==
             IF scenario.severity <= 800 THEN <<>>
             ELSE IF scenario.failed_component \notin Keys(a) THEN <<>>
             ELSE << ScenarioSuggestion(Get(a, scenario.failed_component), scenario) >>
       IN emitted \o ScenarioPass_exclusive(a, scs, i + 1)

RECURSIVE ScenarioPass(_, _, _)
\* pass 2 of RemediationAgent.run: the loop over report.scenarios, from index i
ScenarioPass(a, scs, i) ==
  IF i > Len(scs) THEN <<>>
  ELSE LET scenario == scs[i]
           emitted ==
             IF scenario.severity < 800 THEN <<>>
             ELSE IF scenario.failed_component \notin Keys(a) THEN <<>>
             ELSE << ScenarioSuggestion(Get(a, scenario.failed_component), scenario) >>
       IN emitted \o ScenarioPass(a, scs, i + 1)

RECURSIVE SecurityPass_case_sensitive(_, _)
\* variant: the severity is compared without lower-casing it
SecurityPass_case_sensitive(risks, i) ==
  IF i > Len(risks) THEN <<>>
  ELSE LET risk == risks[i]
           priority == IF risk.severity = "high" THEN "high" ELSE "medium"
       IN << RemediationSuggestion("security", risk.component, priority,
                                   <<"Mitigate", risk.risk_type, "on", risk.component>>,
                                   <<risk.suggestion>>) >>
          \o SecurityPass_case_sensitive(risks, i + 1)

RECURSIVE SecurityPass(_, _)
\* pass 3 of RemediationAgent.run: the loop over report.security_risks, from index i
SecurityPass(risks, i) ==
  IF i > Len(risks) THEN <<>>
  ELSE LET risk == risks[i]
           priority == IF Lower(risk.severity) = "high" THEN "high" ELSE "medium"
       IN << RemediationSuggestion("security", risk.component, priority,
                                   <<"Mitigate", risk.risk_type, "on", risk.component>>,
                                   <<risk.suggestion>>) >>
          \o SecurityPass(risks, i + 1)

\* a list of suggestions, each with the pass that appended it
Tagged(pass, ss) == [k \in 1..Len(ss) |-> [pass |-> pass, suggestion |-> ss[k]]]

\* variant: the security suggestions are appended before the scenario suggestions
RuleBased_security_first(a, rep) ==
  Tagged(1, SystemPass(rep))
    \o Tagged(3, SecurityPass(rep.security_risks, 1))
    \o Tagged(2, ScenarioPass(a, rep.scenarios, 1))

\* passes 1 to 3 of RemediationAgent.run
RuleBased(a, rep) ==
  Tagged(1, SystemPass(rep))
    \o Tagged(2, ScenarioPass(a, rep.scenarios, 1))
    \o Tagged(3, SecurityPass(rep.security_risks, 1))

\* variant: a missing priority becomes "high"
FromAdvisory_default_high(s) ==
  RemediationSuggestion(DictGet(s, "category", "resilience"),
                        DictGet(s, "target", "system"),
                        DictGet(s, "priority", "high"),
                        DictGet(s, "title", <<"AI-suggested remediation">>),
                        DictGet(s, "details", <<"">>))

\* the RemediationSuggestion built from one object of the collaborator
FromAdvisory(s) ==
  RemediationSuggestion(DictGet(s, "category", "resilience"),
                        DictGet(s, "target", "system"),
                        DictGet(s, "priority", "medium"),
                        DictGet(s, "title", <<"AI-suggested remediation">>),
                        DictGet(s, "details", <<"">>))

\* the body of the try statement of pass 4
TryAdvisory(llm) ==
  IF llm.construct = "raises" THEN Raise("RuntimeError")
  ELSE LET extra == generate_remediation_suggestions(llm)
       IN IF extra.raised # "none" THEN extra
          ELSE Return([k \in 1..Len(extra.value) |-> FromAdvisory(extra.value[k].v)])

\* variant: pass 4 without its except clause
AdvisoryPass_uncaught(llm) ==
  IF ~llm.available
    THEN [extra |-> <<>>, step |-> "none", raised |-> "none"]
    ELSE LET attempt == TryAdvisory(llm)
         IN IF attempt.raised # "none"
              THEN [extra |-> <<>>, step |-> "none", raised |-> attempt.raised]
              ELSE [extra |-> attempt.value, step |-> "llm_enhanced", raised |-> "none"]

\* pass 4 of RemediationAgent.run: the suggestions added, the step it logs
\* ("none" when it logs nothing) and the exception that leaves the method
AdvisoryPass(llm) ==
  IF ~llm.available
    THEN [extra |-> <<>>, step |-> "none", raised |-> "none"]
    ELSE LET attempt == TryAdvisory(llm)
         IN IF attempt.raised # "none"
              THEN [extra |-> <<>>, step |-> "llm_failed", raised |-> "none"]
              ELSE [extra |-> attempt.value, step |-> "llm_enhanced", raised |-> "none"]

\* ------------------------------------------------------------------ state
VARIABLES
  input_class,     \* the class of input document being explored
  pc,              \* position of the program
  arch,            \* Architecture.components, in insertion order
  scenario_ids,    \* the scenario selector's output in the failure stage
  scenarios,       \* scenario_summaries returned by the failure stage
  security_risks,  \* risks returned by the security stage
  report,          \* the SystemReport, None until aggregated
  events,          \* AgentContext.events
  shared_state,    \* AgentContext.shared_state
  ret,             \* outcome of a direct call of one engine function
  context,         \* "given" when the caller passes an AgentContext, else "none"
  rem_call,        \* the report and the collaborator of the RemediationAgent.run call
  suggestions,     \* the list RemediationAgent.run returns
  passes,          \* for each suggestion, the pass that appended it
  caller,          \* the entry point (main or the /analyze handler) around the run
  tasks,           \* concurrent runs: position, run id and context of each
  run_dirs,        \* the numbers n for which the directory runs/run_n exists
  heap,            \* per process, the list and dict objects of its contexts
  loop             \* per process, the run its event loop is executing (0: none)

vars == <<input_class, pc, arch, scenario_ids, scenarios, security_risks,
          report, events, shared_state, ret, context, rem_call, suggestions, passes,
          caller, tasks, run_dirs, heap, loop>>

remediation == <<rem_call, suggestions, passes>>

concurrent == <<tasks, run_dirs, heap, loop>>

pipeline == <<scenario_ids, scenarios, security_risks, report, events, shared_state,
              context, remediation, caller, concurrent>>

\* variant: the newest event is put at the head of the list
Log_prepend(ev, agent_name, step) ==
  IF context = "given" THEN <<Event(agent_name, step)>> \o ev ELSE ev

\* "if context: context.log(agent_name, step, ...)" applied to the event list
Log(ev, agent_name, step) ==
  IF context = "given" THEN Append(ev, Event(agent_name, step)) ELSE ev

\* --------------------------------------------------------- input documents
EdgeCount(a) ==
  LET RECURSIVE Cnt(_)
      Cnt(i) == IF i > Len(a) THEN 0 ELSE Len(a[i].depends_on) + Cnt(i + 1)
  IN Cnt(1)

SeqsUpTo(S, k) == UNION {[1..m -> S] : m \in 0..k}

\* "graph" documents have up to three components; their depends_on entries
\* name these three or the phantom, whether or not the component is present
GraphNames == {"b", "a", "c"}

\* "graph" documents: entries give name, public and depends_on only
GraphEntries(a) ==
  IF Len(a) >= Cardinality(GraphNames) THEN {}
  ELSE {[name |-> NameSeq[Len(a) + 1], public |-> p, depends_on |-> d] :
          p \in BOOLEAN,
          d \in SeqsUpTo(GraphNames \cup {Phantom}, MaxEdges - EdgeCount(a))}

\* "attr" documents: entries give name, type and public only
AttrEntries(a) ==
  IF Len(a) >= MaxAttrComps THEN {}
  ELSE {[name |-> NameSeq[Len(a) + 1], type |-> t, public |-> p] :
          t \in Types, p \in BOOLEAN}

\* the (type, criticality) pairs of "severity" documents: each contributes a
\* different amount to the score (0, 0.5, 1.0 and 1.5)
SevProfiles == {<<"service", "low">>, <<"service", "medium">>,
                <<"queue", "medium">>, <<"queue", "high">>}

\* "severity" documents: a chain, each entry depending on the one before it
SevEntries(a) ==
  IF Len(a) >= MaxSevComps THEN {}
  ELSE {[name |-> NameSeq[Len(a) + 1], type |-> p[1], criticality |-> p[2],
         depends_on |-> IF Len(a) = 0 THEN <<>> ELSE <<NameSeq[Len(a)]>>] :
          p \in SevProfiles}

\* the worked architecture of the specification
WorkedDocument ==
  << [name |-> "G", type |-> "gateway", public |-> TRUE, depends_on |-> <<"S">>],
     [name |-> "S", type |-> "service", criticality |-> "medium", depends_on |-> <<"D">>],
     [name |-> "D", type |-> "database", criticality |-> "high", depends_on |-> <<>>] >>

WorkedEntries(a) ==
  IF Len(a) >= Len(WorkedDocument) THEN {} ELSE {WorkedDocument[Len(a) + 1]}

\* "remediation" documents: a chain behind an entry point, each entry
\* depending on the next one of the document (the last entry of a full
\* document on none); only the first entry may be public
RemTypes == {"gateway", "external_api", "database", "queue", "service"}

RemEntries(a) ==
  IF Len(a) >= MaxRemComps THEN {}
  ELSE {[name |-> NameSeq[Len(a) + 1], type |-> t, criticality |-> c, public |-> p,
         depends_on |-> IF Len(a) + 1 = MaxRemComps THEN <<>>
                        ELSE <<NameSeq[Len(a) + 2]>>] :
          t \in RemTypes, c \in {"medium", "high"},
          p \in IF Len(a) = 0 THEN BOOLEAN ELSE {FALSE}}

\* "fields" documents: entry k gives every field with a value that is not the
\* field's default, or lacks one field, or lacks all fields but the name, or
\* is empty
FieldNames == {"name", "type", "public", "depends_on", "criticality"}

FullEntry(k) ==
  [name |-> NameSeq[k], type |-> "database", public |-> TRUE,
   depends_on |-> <<NameSeq[k + 1]>>, criticality |-> "high"]

Without(raw, S) == [f \in DOMAIN raw \ S |-> raw[f]]

FieldEntries(a) ==
  IF Len(a) >= MaxFieldComps THEN {}
  ELSE {Without(FullEntry(Len(a) + 1), S) :
          S \in {{}, FieldNames \ {"name"}, FieldNames} \cup {{f} : f \in FieldNames}}

Entries(class, a) ==
  CASE class = "graph" -> GraphEntries(a)
    [] class = "fields" -> FieldEntries(a)
    [] class = "attr" -> AttrEntries(a)
    [] class = "severity" -> SevEntries(a)
    [] class = "remediation" -> RemEntries(a)
    [] OTHER -> WorkedEntries(a)

\* the collaborator without an API key: LLMClient() raises
NoApiKey ==
  [available |-> TRUE, construct |-> "raises", response |-> "raises", items |-> <<>>]

\* the list a collaborator returns: an empty object, an element that is no
\* object, a complete object, an object with one field, and an object with
\* the fields of the suggestion of pass 1
AdvisoryItems ==
  << [t |-> "dict", v |-> <<>>],
     [t |-> "other"],
     [t |-> "dict", v |-> [category |-> "architecture", target |-> "a",
                           priority |-> "low", title |-> <<"Split the monolith">>,
                           details |-> <<"Extract services">>]],
     [t |-> "dict", v |-> [priority |-> "high"]],
     [t |-> "dict", v |-> [category |-> "resilience", target |-> "system",
                           priority |-> "high",
                           title |-> <<"Improve overall fault tolerance">>]] >>

\* the collaborators of "remediation" and "fields" documents; the other
\* documents are analysed without an API key
Collaborators(class) ==
  IF class \in {"remediation", "fields"}
    THEN {[available |-> FALSE, construct |-> "raises", response |-> "raises",
           items |-> <<>>],
          NoApiKey,
          [available |-> TRUE, construct |-> "ok", response |-> "raises", items |-> <<>>],
          [available |-> TRUE, construct |-> "ok", response |-> "malformed",
           items |-> <<>>],
          [available |-> TRUE, construct |-> "ok", response |-> "object", items |-> <<>>],
          [available |-> TRUE, construct |-> "ok", response |-> "array", items |-> <<>>],
          [available |-> TRUE, construct |-> "ok", response |-> "array",
           items |-> AdvisoryItems]}
    ELSE {NoApiKey}

\* a report of another architecture: a scenario of a component this one lacks
ForeignScenario ==
  [scenario_name |-> <<Phantom, "FAILURE">>, failed_component |-> Phantom,
   severity |-> 900, user_visible_impact |-> TRUE, impacted_components |-> <<Phantom>>]

\* the (report, collaborator) pairs of a call of RemediationAgent.run: the
\* report of the pipeline with every collaborator and, for a direct caller,
\* a report holding a foreign scenario
RemediationCalls(class, rep) ==
  {[report |-> rep, llm |-> l] : l \in Collaborators(class)}
    \cup IF class = "remediation"
           THEN {[report |-> [rep EXCEPT !.scenarios = <<ForeignScenario>> \o @],
                  llm |-> NoApiKey]}
           ELSE {}

\* ------------------------------------------------------------------ init
InitState ==
  /\ pc = "parsing"
  /\ arch = <<>>
  /\ scenario_ids = <<>>
  /\ scenarios = <<>>
  /\ security_risks = <<>>
  /\ report = None
  /\ ret = None
  /\ rem_call = None
  /\ suggestions = <<>>
  /\ passes = <<>>

\* the engine is used directly, without an entry point around it
NoCaller ==
  [entry |-> "none", stage |-> "direct", graph_image_path |-> "unset",
   artifacts |-> {}, aborted_by |-> "none", response |-> None]

\* no concurrent runs
NoRuns ==
  /\ tasks = <<>>
  /\ run_dirs = {}
  /\ heap = <<>>
  /\ loop = <<>>

DirectUse == caller = NoCaller /\ NoRuns

\* a fresh AgentContext, as main and analyze_architecture create it
FreshContext ==
  /\ context = "given"
  /\ events = <<>>
  /\ shared_state = [k \in {} |-> 0]

Init == input_class \in {"graph", "attr", "worked"} /\ InitState /\ FreshContext /\ DirectUse

InitSev ==
  input_class \in {"severity", "worked"} /\ InitState /\ FreshContext /\ DirectUse

InitRem ==
  input_class \in {"remediation", "worked"} /\ InitState /\ FreshContext /\ DirectUse

\* a context that has served an earlier run
UsedContext ==
  /\ context = "given"
  /\ events = <<Event("remediation_agent", "done")>>
  /\ shared_state = DictSet(DictSet([k \in {} |-> 0], "overall_resilience_score", 0),
                            "remediation_suggestion_count", 7)

\* no context: the caller passes None
NoContext ==
  /\ context = "none"
  /\ events = <<>>
  /\ shared_state = [k \in {} |-> 0]

InitCtx ==
  /\ input_class \in {"graph", "worked"}
  /\ InitState
  /\ FreshContext \/ UsedContext \/ NoContext
  /\ DirectUse

\* ---------------------------------------------------------------- actions
\* variant: an entry without a name is given the name "unnamed"
ParseEntry_default_name(raw) ==
  Return(FromDictEntry([f \in DOMAIN raw \cup {"name"} |->
                          IF f \in DOMAIN raw THEN raw[f] ELSE "unnamed"]))

\* the body of the loop of Architecture.from_dict: comp["name"] raises
\* KeyError when the entry has no name, the other fields are read with get
ParseEntry(raw) ==
  IF "name" \in DOMAIN raw THEN Return(FromDictEntry(raw)) ELSE Raise("KeyError")

\* Architecture.from_dict: one iteration of the loop over components_data;
\* when it raises, from_dict returns no Architecture and its dict is dropped
ParseComponent ==
  /\ pc = "parsing"
  /\ \E raw \in Entries(input_class, arch) :
       LET out == ParseEntry(raw)
       IN /\ ret' = [kind |-> "from_dict", entry |-> raw, out |-> out]
          /\ IF out.raised # "none"
               THEN pc' = "parse_failed" /\ arch' = <<>>
               ELSE pc' = pc /\ arch' = PutComponent(arch, out.value)
  /\ UNCHANGED <<input_class, pipeline>>

\* Architecture.from_dict returns the Architecture
ParseDone ==
  /\ pc = "parsing"
  /\ pc' = "idle"
  /\ UNCHANGED <<input_class, arch, pipeline, ret>>

\* variant: the graph builder registers every dependency target that is no
\* component as a new component of the architecture
BuildDependencyGraphsCall_registers_targets ==
  /\ pc = "idle"
  /\ pc' = "returned"
  /\ ret' = [kind |-> "build_dependency_graphs",
             out |-> Return(build_dependency_graphs(arch))]
  /\ arch' = arch \o
       LET targets == UNION {{arch[i].depends_on[j] : j \in 1..Len(arch[i].depends_on)} :
                               i \in 1..Len(arch)}
           added == ListOfSet(targets \ Keys(arch), 0)
       IN [k \in 1..Len(added) |-> Component(added[k], "service", FALSE, <<>>, "medium")]
  /\ UNCHANGED <<input_class, pipeline>>

\* a direct call of build_dependency_graphs
BuildDependencyGraphsCall ==
  /\ pc = "idle"
  /\ pc' = "returned"
  /\ ret' = [kind |-> "build_dependency_graphs",
             out |-> Return(build_dependency_graphs(arch))]
  /\ UNCHANGED <<input_class, arch, pipeline>>

\* a direct call of simulate_failure, with a component name or any other name
SimulateFailureCall ==
  /\ pc = "idle"
  /\ pc' = "returned"
  /\ \E fc \in Keys(arch) \cup {Phantom} \cup
               UNION {{arch[i].depends_on[j] : j \in 1..Len(arch[i].depends_on)} :
                        i \in 1..Len(arch)},
        seed \in HashSeeds :
       ret' = [kind |-> "simulate_failure", failed_component |-> fc,
               out |-> simulate_failure(arch, fc, seed)]
  /\ UNCHANGED <<input_class, arch, pipeline>>

\* a direct call of compute_severity on all components, with either flag
ComputeSeverityCall ==
  /\ pc = "idle"
  /\ pc' = "returned"
  /\ \E flag \in BOOLEAN, seed \in HashSeeds :
       LET impacted == ListOfSet(Keys(arch), seed)
       IN ret' = [kind |-> "compute_severity", impacted_components |-> impacted,
                  user_visible_impact |-> flag,
                  out |-> compute_severity(arch, impacted, flag)]
  /\ UNCHANGED <<input_class, arch, pipeline>>

\* OrchestratorAgent.run, entry
OrchestratorStart ==
  /\ pc = "idle"
  /\ pc' = "orchestrator"
  /\ events' = Log(events, "orchestrator_agent", "start")
  /\ UNCHANGED <<input_class, arch, scenario_ids, scenarios, security_risks,
                 report, shared_state, ret, context, remediation, caller, concurrent>>

\* FailureSimulationAgent.run
FailureSimulationAgentRun ==
  /\ pc = "orchestrator"
  /\ \E seed \in HashSeeds :
       LET ids == generate_failure_scenarios(arch)
           out == RunScenarios(arch, ids, 1, <<>>, seed)
           started == Log(events, "failure_simulation_agent", "start")
       IN /\ scenario_ids' = ids
          /\ IF out.raised # "none"
               THEN /\ pc' = "raised"
                    /\ scenarios' = scenarios
                    /\ events' = started
               ELSE /\ pc' = "failure_done"
                    /\ scenarios' = out.value
                    /\ events' = Log(started, "failure_simulation_agent", "done")
  /\ UNCHANGED <<input_class, arch, security_risks, report, shared_state, ret,
                 context, remediation, caller, concurrent>>

\* SecurityAnalysisAgent.run
SecurityAnalysisAgentRun ==
  /\ pc = "failure_done"
  /\ pc' = "security_done"
  /\ security_risks' = analyze_security(arch)
  /\ events' = Log(Log(events, "security_analysis_agent", "start"),
                    "security_analysis_agent", "done")
  /\ UNCHANGED <<input_class, arch, scenario_ids, scenarios, report, shared_state, ret,
                 context, remediation, caller, concurrent>>

\* variant: the orchestrator runs the reporting stage right after the failure
\* stage, without the security stage
ReportingAgentRun_skips_security ==
  /\ pc = "failure_done"
  /\ pc' = "reporting_done"
  /\ report' = BuildReport(scenarios, security_risks)
  /\ shared_state' =
       IF context = "given"
         THEN DictSet(DictSet(shared_state, "overall_resilience_score",
                              report'.overall_resilience_score),
                      "worst_case_severity", report'.worst_case_severity)
         ELSE shared_state
  /\ events' = Log(Log(events, "reporting_agent", "start"), "reporting_agent", "done")
  /\ UNCHANGED <<input_class, arch, scenario_ids, scenarios, security_risks, ret,
                 context, remediation, caller, concurrent>>

\* variant: the reporting stage takes a resilience score the context already
\* holds instead of computing it
ReportingAgentRun_reuses_shared_state ==
  /\ pc = "security_done"
  /\ pc' = "reporting_done"
  /\ report' =
       IF context = "given" /\ "overall_resilience_score" \in DOMAIN shared_state
         THEN [BuildReport(scenarios, security_risks) EXCEPT
                 !.overall_resilience_score = shared_state["overall_resilience_score"]]
         ELSE BuildReport(scenarios, security_risks)
  /\ shared_state' =
       IF context = "given"
         THEN DictSet(DictSet(shared_state, "overall_resilience_score",
                              report'.overall_resilience_score),
                      "worst_case_severity", report'.worst_case_severity)
         ELSE shared_state
  /\ events' = Log(Log(events, "reporting_agent", "start"), "reporting_agent", "done")
  /\ UNCHANGED <<input_class, arch, scenario_ids, scenarios, security_risks, ret,
                 context, remediation, caller, concurrent>>

\* ReportingAgent.run
ReportingAgentRun ==
  /\ pc = "security_done"
  /\ pc' = "reporting_done"
  /\ report' = BuildReport(scenarios, security_risks)
  /\ shared_state' =
       IF context = "given"
         THEN DictSet(DictSet(shared_state, "overall_resilience_score",
                              report'.overall_resilience_score),
                      "worst_case_severity", report'.worst_case_severity)
         ELSE shared_state
  /\ events' = Log(Log(events, "reporting_agent", "start"), "reporting_agent", "done")
  /\ UNCHANGED <<input_class, arch, scenario_ids, scenarios, security_risks, ret,
                 context, remediation, caller, concurrent>>

\* OrchestratorAgent.run, exit: generate_system_report returns the report
OrchestratorDone ==
  /\ pc = "reporting_done"
  /\ pc' = "report_returned"
  /\ events' = Log(events, "orchestrator_agent", "done")
  /\ UNCHANGED <<input_class, arch, scenario_ids, scenarios, security_risks,
                 report, shared_state, ret, context, remediation, caller, concurrent>>

\* RemediationAgent.run, called with the report and the context of the run;
\* an entry point calls it after the renderers and writes remediation.json
RemediationAgentRun ==
  /\ pc = "report_returned"
  /\ caller.stage \in {"direct", "pdf_done"}
  /\ \E call \in RemediationCalls(input_class, report) :
       LET base == RuleBased(arch, call.report)
           advisory == AdvisoryPass(call.llm)
           all == base \o Tagged(4, advisory.extra)
           started == Log(events, "remediation_agent", "start")
           logged == IF advisory.step = "none" THEN started
                     ELSE Log(started, "remediation_agent", advisory.step)
       IN /\ rem_call' = call
          /\ IF advisory.raised # "none"
               THEN /\ pc' = "raised"
                    /\ events' = started
                    /\ UNCHANGED <<suggestions, passes, shared_state, caller>>
               ELSE /\ pc' = "remediated"
                    /\ caller' =
                         IF caller.entry = "none" THEN caller
                         ELSE [caller EXCEPT
                                 !.stage = "remediated",
                                 !.artifacts =
                                   @ \cup {"remediation.json"} \cup
                                   IF caller.entry = "main" THEN {"remediation.txt"}
                                   ELSE {}]
                    /\ suggestions' = [k \in 1..Len(all) |-> all[k].suggestion]
                    /\ passes' = [k \in 1..Len(all) |-> all[k].pass]
                    /\ shared_state' =
                         IF context = "given"
                           THEN DictSet(shared_state, "remediation_suggestion_count",
                                        Len(all))
                           ELSE shared_state
                    /\ events' = Log(logged, "remediation_agent", "done")
  /\ UNCHANGED <<input_class, arch, scenario_ids, scenarios, security_risks, report,
                 ret, context, concurrent>>

\* ------------------------------------------------- main.py and api.py
\* what a renderer does when it is called
RendererOutcomes == {"ok", "raises"}

\* the summary service: LLMClient missing, its constructor raising, the call
\* raising, an empty text, a text
SummaryServices == {"unavailable", "no_key", "raises", "empty", "text"}

\* generate_ai_summary: the second element of the pair it returns; every
\* failure is caught and answered with the fallback summary
generate_ai_summary(service) == service = "text"

\* an exception leaves the entry point: FastAPI answers 400 for the
\* HTTPException of the parse step and 500 for any other exception, main
\* ends with a traceback
Abort(c, by) ==
  [c EXCEPT !.stage = "aborted", !.aborted_by = by,
            !.response = IF c.entry = "main" THEN [kind |-> "traceback"]
                         ELSE IF by = "parse" THEN [kind |-> "http", status |-> 400]
                         ELSE [kind |-> "http", status |-> 500]]

\* load_architecture_from_yaml has raised
ParseAbort ==
  /\ pc = "parse_failed"
  /\ caller.stage = "started"
  /\ caller' = Abort(caller, "parse")
  /\ UNCHANGED <<input_class, pc, arch, scenario_ids, scenarios, security_risks,
                 report, events, shared_state, ret, context, remediation, concurrent>>

\* save_report and save_text_report
SaveReports ==
  /\ pc = "report_returned"
  /\ caller.stage = "started"
  /\ \E text \in RendererOutcomes :
       LET json == {"report.json"} \cup
                   IF caller.entry = "main" THEN {"last_report.json"} ELSE {}
           saved == [caller EXCEPT !.artifacts = @ \cup json]
       IN caller' = IF text = "raises" THEN Abort(saved, "text")
                    ELSE [saved EXCEPT !.stage = "saved",
                                       !.artifacts = @ \cup {"report.md"}]
  /\ UNCHANGED <<input_class, pc, arch, scenario_ids, scenarios, security_risks,
                 report, events, shared_state, ret, context, remediation, concurrent>>

\* generate_architecture_graph_image: the handler of /analyze calls it inside
\* try/except and goes on without an image, main calls it unguarded
RenderDiagram ==
  /\ pc = "report_returned"
  /\ caller.stage = "saved"
  /\ \E diagram \in RendererOutcomes :
       caller' = IF diagram = "ok"
                   THEN [caller EXCEPT !.stage = "diagram_done",
                                       !.graph_image_path = "architecture_graph.png",
                                       !.artifacts = @ \cup {"architecture_graph.png"}]
                 ELSE IF caller.entry = "api"
                   THEN [caller EXCEPT !.stage = "diagram_done",
                                       !.graph_image_path = "None"]
                 ELSE Abort(caller, "diagram")
  /\ UNCHANGED <<input_class, pc, arch, scenario_ids, scenarios, security_risks,
                 report, events, shared_state, ret, context, remediation, concurrent>>

\* generate_pdf_report, called unguarded by both entry points
RenderPdf ==
  /\ pc = "report_returned"
  /\ caller.stage = "diagram_done"
  /\ \E pdf \in RendererOutcomes :
       caller' = IF pdf = "ok"
                   THEN [caller EXCEPT !.stage = "pdf_done",
                                       !.artifacts = @ \cup {"report.pdf"}]
                 ELSE Abort(caller, "pdf")
  /\ UNCHANGED <<input_class, pc, arch, scenario_ids, scenarios, security_risks,
                 report, events, shared_state, ret, context, remediation, concurrent>>

\* generate_ai_summary, then the context is saved and the entry point
\* returns: the handler answers with the report and the suggestions
Respond ==
  /\ pc = "remediated"
  /\ caller.stage = "remediated"
  /\ \E service \in SummaryServices :
       caller' =
         [caller EXCEPT
            !.stage = "responded",
            !.artifacts = @ \cup {"agent_context.json"} \cup
                          IF caller.entry = "main" THEN {"ai_summary.txt"} ELSE {},
            !.response =
              IF caller.entry = "main" THEN [kind |-> "exit", status |-> 0]
              ELSE [kind |-> "http", status |-> 200,
                    overall_resilience_score |-> report.overall_resilience_score,
                    worst_case_severity |-> report.worst_case_severity,
                    failure_scenarios |-> report.scenarios,
                    security_risks |-> report.security_risks,
                    remediation_suggestions |-> suggestions,
                    ai_summary_llm_used |-> generate_ai_summary(service)]]
  /\ UNCHANGED <<input_class, pc, arch, scenario_ids, scenarios, security_risks,
                 report, events, shared_state, ret, context, remediation, concurrent>>

\* a run of main or of the /analyze handler on a "fields" document or on the
\* worked architecture
InitEntry ==
  /\ input_class \in {"fields", "worked"}
  /\ InitState
  /\ FreshContext
  /\ \E e \in {"api", "main"} : caller = [NoCaller EXCEPT !.entry = e, !.stage = "started"]
  /\ NoRuns

NextEntry ==
  \/ ParseComponent
  \/ ParseDone
  \/ ParseAbort
  \/ OrchestratorStart
  \/ FailureSimulationAgentRun
  \/ SecurityAnalysisAgentRun
  \/ ReportingAgentRun
  \/ OrchestratorDone
  \/ SaveReports
  \/ RenderDiagram
  \/ RenderPdf
  \/ RemediationAgentRun
  \/ Respond

SpecEntry == InitEntry /\ [][NextEntry]_vars

\* ------------------------------------- simulate_failure, step by step
\* simulate_failure up to its loop: the name is validated, the graphs are
\* built, the stack holds the failed component
TraverseStart ==
  /\ pc = "idle"
  /\ pc' = "traversing"
  /\ \E fc \in Keys(arch) :
       ret' = [kind |-> "traversal", failed_component |-> fc,
               reverse_graph |-> build_dependency_graphs(arch).reverse,
               stack |-> <<fc>>, impacted |-> {}, added |-> <<>>, iterations |-> 0]
  /\ UNCHANGED <<input_class, arch, pipeline>>

\* one iteration of "while stack:"
TraverseStep ==
  /\ pc = "traversing"
  /\ ret.stack # <<>>
  /\ LET it == TraverseIteration(ret.reverse_graph, ret.stack, ret.impacted)
     IN ret' = [ret EXCEPT !.stack = it.stack, !.impacted = it.impacted,
                           !.added = @ \o it.added, !.iterations = @ + 1]
  /\ UNCHANGED <<input_class, pc, arch, pipeline>>

\* the stack is empty: the loop ends and simulate_failure returns
TraverseDone ==
  /\ pc = "traversing"
  /\ ret.stack = <<>>
  /\ pc' = "returned"
  /\ \E seed \in HashSeeds :
       ret' = [kind |-> "simulate_failure", failed_component |-> ret.failed_component,
               out |-> FailureResultOf(arch, ret.failed_component, ret.impacted, seed),
               added |-> ret.added, iterations |-> ret.iterations]
  /\ UNCHANGED <<input_class, arch, pipeline>>

InitTrav == input_class \in {"graph", "worked"} /\ InitState /\ FreshContext /\ DirectUse

NextTrav ==
  \/ ParseComponent
  \/ ParseDone
  \/ TraverseStart
  \/ TraverseStep
  \/ TraverseDone

SpecTrav == InitTrav /\ [][NextTrav]_vars

\* ------------------------------------------------------ concurrent runs
\* f"{n:03d}": the decimal digits of n, padded to three
RECURSIVE Digits(_)
Digits(n) == IF n < 10 THEN <<n>> ELSE Append(Digits(n \div 10), n % 10)

Pad3(n) ==
  LET d == Digits(n)
  IN IF Len(d) >= 3 THEN d ELSE [k \in 1..(3 - Len(d)) |-> 0] \o d

\* int(suffix) on a string of digits
RECURSIVE ParseInt(_)
ParseInt(s) ==
  IF s = <<>> THEN 0 ELSE 10 * ParseInt(SubSeq(s, 1, Len(s) - 1)) + s[Len(s)]

\* get_next_run_id on a listing of runs/: the largest suffix plus one
get_next_run_id(dirs) ==
  LET numbers == {ParseInt(d) : d \in dirs}
      max_n == IF numbers = {} THEN 0
               ELSE CHOOSE n \in numbers : \A k \in numbers : k <= n
  IN Pad3(max_n + 1)

\* variant: the dict and the list are class-level defaults, shared by every
\* context of the process
AgentContext_shared_defaults(h, run_id) ==
  IF Len(h) >= 2
    THEN [context |-> [run_id |-> run_id, shared_state |-> 1, events |-> 2], heap |-> h]
    ELSE [context |-> [run_id |-> run_id, shared_state |-> Len(h) + 1,
                       events |-> Len(h) + 2],
          heap |-> h \o << [k \in {} |-> 0], <<>> >>]

\* AgentContext(run_id=run_id): default_factory gives the new context a dict
\* and a list of its own; h is the sequence of objects of the process
AgentContext(h, run_id) ==
  [context |-> [run_id |-> run_id, shared_state |-> Len(h) + 1, events |-> Len(h) + 2],
   heap |-> h \o << [k \in {} |-> 0], <<>> >>]

\* what a run does with its context, in program order: the event it logs
\* and the shared_state keys it writes just before
RunSteps ==
  << [agent_name |-> "orchestrator_agent", step |-> "start", writes |-> {}],
     [agent_name |-> "failure_simulation_agent", step |-> "start", writes |-> {}],
     [agent_name |-> "failure_simulation_agent", step |-> "done", writes |-> {}],
     [agent_name |-> "security_analysis_agent", step |-> "start", writes |-> {}],
     [agent_name |-> "security_analysis_agent", step |-> "done", writes |-> {}],
     [agent_name |-> "reporting_agent", step |-> "start", writes |-> {}],
     [agent_name |-> "reporting_agent", step |-> "done",
      writes |-> {"overall_resilience_score", "worst_case_severity"}],
     [agent_name |-> "orchestrator_agent", step |-> "done", writes |-> {}],
     [agent_name |-> "remediation_agent", step |-> "start", writes |-> {}],
     [agent_name |-> "remediation_agent", step |-> "llm_failed", writes |-> {}],
     [agent_name |-> "remediation_agent", step |-> "done",
      writes |-> {"remediation_suggestion_count"}] >>

\* the directories of runs/ before the runs start: none, or run_002 alone
ExistingRuns == {{}, {Pad3(2)}}

\* run t is served by the event loop of process 1 or is a process of its own
InitRuns ==
  /\ input_class = "worked"
  /\ InitState
  /\ FreshContext
  /\ caller = NoCaller
  /\ run_dirs \in ExistingRuns
  /\ tasks \in {f \in [1..MaxRuns -> [proc : 1..MaxRuns, pc : {"new"}, run_id : {<<>>},
                                         context : {None}, pos : {0}]] :
                   \A t \in 1..MaxRuns : f[t].proc \in {1, t}}
  /\ heap = [p \in 1..MaxRuns |-> <<>>]
  /\ loop = [p \in 1..MaxRuns |-> 0]

single_run == <<input_class, pc, arch, scenario_ids, scenarios, security_risks, report,
                events, shared_state, ret, context, remediation, caller>>

\* run_id = get_next_run_id(): the run starts to execute in its process
GetNextRunId ==
  /\ \E t \in 1..MaxRuns :
       /\ tasks[t].pc = "new"
       /\ loop[tasks[t].proc] = 0
       /\ loop' = [loop EXCEPT ![tasks[t].proc] = t]
       /\ tasks' = [tasks EXCEPT ![t].pc = "id_taken",
                                  ![t].run_id = get_next_run_id(run_dirs)]
  /\ UNCHANGED <<single_run, run_dirs, heap>>

\* os.makedirs(run_dir, exist_ok=True); the handler then awaits file.read()
\* and the event loop is free for another request
MakeRunDir ==
  /\ \E t \in 1..MaxRuns :
       /\ tasks[t].pc = "id_taken"
       /\ run_dirs' = run_dirs \cup {tasks[t].run_id}
       /\ tasks' = [tasks EXCEPT ![t].pc = "reading"]
       /\ loop' = [loop EXCEPT ![tasks[t].proc] = 0]
  /\ UNCHANGED <<single_run, heap>>

\* the read completes and the run resumes: the architecture is loaded and
\* the context of the run is created
CreateContext ==
  /\ \E t \in 1..MaxRuns :
       /\ tasks[t].pc = "reading"
       /\ loop[tasks[t].proc] = 0
       /\ LET new == AgentContext(heap[tasks[t].proc], tasks[t].run_id)
          IN /\ heap' = [heap EXCEPT ![tasks[t].proc] = new.heap]
             /\ tasks' = [tasks EXCEPT ![t].pc = "pipeline", ![t].context = new.context]
       /\ loop' = [loop EXCEPT ![tasks[t].proc] = t]
  /\ UNCHANGED <<single_run, run_dirs>>

\* the next write of the run to its context: shared_state keys, then
\* context.log; the values and the event details are data of run t
StageStep ==
  /\ \E t \in 1..MaxRuns :
       /\ tasks[t].pc = "pipeline"
       /\ tasks[t].pos < Len(RunSteps)
       /\ LET s == RunSteps[tasks[t].pos + 1]
              h == heap[tasks[t].proc]
              c == tasks[t].context
              dict == [k \in DOMAIN h[c.shared_state] \cup s.writes |->
                         IF k \in s.writes THEN [run |-> t] ELSE h[c.shared_state][k]]
              h1 == [h EXCEPT ![c.shared_state] = dict]
              h2 == [h1 EXCEPT ![c.events] =
                       Append(@, [agent_name |-> s.agent_name, step |-> s.step,
                                  details |-> [run |-> t]])]
          IN heap' = [heap EXCEPT ![tasks[t].proc] = h2]
       /\ tasks' = [tasks EXCEPT ![t].pos = @ + 1]
  /\ UNCHANGED <<single_run, run_dirs, loop>>

\* the context is saved and the run returns
FinishRun ==
  /\ \E t \in 1..MaxRuns :
       /\ tasks[t].pc = "pipeline"
       /\ tasks[t].pos = Len(RunSteps)
       /\ tasks' = [tasks EXCEPT ![t].pc = "done"]
       /\ loop' = [loop EXCEPT ![tasks[t].proc] = 0]
  /\ UNCHANGED <<single_run, run_dirs, heap>>

NextRuns ==
  \/ GetNextRunId
  \/ MakeRunDir
  \/ CreateContext
  \/ StageStep
  \/ FinishRun

SpecRuns == InitRuns /\ [][NextRuns]_vars

Next ==
  \/ ParseComponent
  \/ ParseDone
  \/ BuildDependencyGraphsCall
  \/ SimulateFailureCall
  \/ ComputeSeverityCall
  \/ OrchestratorStart
  \/ FailureSimulationAgentRun
  \/ SecurityAnalysisAgentRun
  \/ ReportingAgentRun
  \/ OrchestratorDone
  \/ RemediationAgentRun

Spec == Init /\ [][Next]_vars

SpecSev == InitSev /\ [][Next]_vars

SpecRem == InitRem /\ [][Next]_vars

SpecCtx == InitCtx /\ [][Next]_vars

\* ================================================================= claims
\* the set of elements of a sequence
Range(s) == {s[i] : i \in 1..Len(s)}

\* x declares y in its depends_on list
DependsOn(a, x, y) == x \in Keys(a) /\ y \in Range(Get(a, x).depends_on)

\* S holds every component that depends on one of its members
ClosedUnderDependents(a, S) ==
  \A x \in Keys(a) : (\E y \in S : DependsOn(a, x, y)) => x \in S

\* the least set of components that holds fc and is closed under dependents
ImpactClosure(a, fc) ==
  LET closed == {S \in SUBSET Keys(a) : fc \in S /\ ClosedUnderDependents(a, S)}
  IN {n \in Keys(a) : \A S \in closed : n \in S}

\* the FailureResult of a direct call that returned
IsSimulated == ret.kind = "simulate_failure" /\ ret.out.raised = "none"

\* C1: for a failed component that is a key of the architecture, simulate_failure
\* returns as impacted_components exactly the reflexive-transitive closure of the
\* failed component over the reverse dependency graph: it holds the failed
\* component, and it is {failed component} when no other component depends on it.
\* The same holds of every scenario of the pipeline.
C1_ImpactedIsReverseClosure ==
  /\ (ret.kind = "simulate_failure" /\ ret.failed_component \in Keys(arch)) =>
       /\ ret.out.raised = "none"
       /\ Range(ret.out.value.impacted_components) = ImpactClosure(arch, ret.failed_component)
       /\ ret.failed_component \in Range(ret.out.value.impacted_components)
       /\ (\A x \in Keys(arch) \ {ret.failed_component} :
             ~DependsOn(arch, x, ret.failed_component)) =>
            Range(ret.out.value.impacted_components) = {ret.failed_component}
  /\ \A i \in 1..Len(scenarios) :
       Range(scenarios[i].impacted_components) =
         ImpactClosure(arch, scenarios[i].failed_component)

\* a call whose impacted set holds a component that depends on the failed one
\* only through another component
C1_Witness ==
  /\ IsSimulated
  /\ \E n \in Range(ret.out.value.impacted_components) :
       /\ n # ret.failed_component
       /\ ~DependsOn(arch, n, ret.failed_component)

\* C2: user_visible_impact is true iff some impacted component is public.
C2_VisibleIffPublicImpacted ==
  /\ IsSimulated =>
       (ret.out.value.user_visible_impact <=>
          \E n \in Range(ret.out.value.impacted_components) : Get(arch, n).public)
  /\ \A i \in 1..Len(scenarios) :
       scenarios[i].user_visible_impact <=>
         \E n \in Range(scenarios[i].impacted_components) : Get(arch, n).public

\* a call whose failed component is private and whose impact is user visible
C2_Witness ==
  /\ IsSimulated
  /\ ret.out.value.user_visible_impact
  /\ ~Get(arch, ret.failed_component).public
  /\ \E n \in Keys(arch) : ~Get(arch, n).public /\ n \notin Range(ret.out.value.impacted_components)

\* ---- severity
CriticalTypeSet == {"database", "gateway", "external_api", "queue"}

\* the uncapped reference total, in thousandths
RefTotal(a, imp, flag) ==
  Min(Cardinality(imp), 5) * 1000
  + (IF flag THEN 3000 ELSE 0)
  + 500 * Cardinality({n \in imp : Get(a, n).ctype \in CriticalTypeSet})
  + 1000 * Cardinality({n \in imp : Get(a, n).criticality = "high"})
  + 500 * Cardinality({n \in imp : Get(a, n).criticality = "medium"})

\* the reference score, in hundredths: clamped to [0, 10], nearest hundredth
RefSeverity(a, imp, flag) ==
  LET t == RefTotal(a, imp, flag)
      c == IF t > 10000 THEN 10000 ELSE IF t < 0 THEN 0 ELSE t
  IN (c + 5) \div 10

IsScored == ret.kind = "compute_severity" /\ ret.out.raised = "none"

\* C3: the severity score of every simulated scenario lies in [0, 10], however
\* many impacted components contribute the uncapped bonuses.
C3_SeverityInRange ==
  /\ IsSimulated => ret.out.value.severity_score \in 0..1000
  /\ IsScored => ret.out.value \in 0..1000
  /\ \A i \in 1..Len(scenarios) : scenarios[i].severity \in 0..1000

\* a scenario whose uncapped total exceeds 10 and whose score is 10
C3_Witness ==
  /\ IsSimulated
  /\ RefTotal(arch, Range(ret.out.value.impacted_components),
              ret.out.value.user_visible_impact) > 10000
  /\ ret.out.value.severity_score = 1000

\* C4: compute_severity equals the reference formula (fan-out capped at 5, +3
\* when user visible, +0.5 per critical-type component, +1.0 / +0.5 / +0 per
\* high / medium / low component, clamped to [0, 10], two decimals); failing D
\* in the worked architecture gives impacted D, G, S, visible, severity 9.0.
C4_SeverityIsReference ==
  /\ ret.kind = "compute_severity" =>
       /\ ret.out.raised = "none"
       /\ ret.out.value = RefSeverity(arch, Range(ret.impacted_components),
                                      ret.user_visible_impact)
  /\ IsSimulated =>
       ret.out.value.severity_score =
         RefSeverity(arch, Range(ret.out.value.impacted_components),
                     ret.out.value.user_visible_impact)
  /\ (input_class = "worked" /\ Len(arch) = 3
      /\ ret.kind = "simulate_failure" /\ ret.failed_component = "D") =>
       /\ ret.out.raised = "none"
       /\ ret.out.value.impacted_components = <<"D", "G", "S">>
       /\ ret.out.value.user_visible_impact
       /\ ret.out.value.severity_score = 900

\* a score below 10 of six components, visible, with both kinds of bonus
C4_Witness ==
  /\ IsScored
  /\ Len(ret.impacted_components) = 6
  /\ ret.user_visible_impact
  /\ ret.out.value < 1000
  /\ \E n \in Keys(arch) : Get(arch, n).ctype = "queue"
  /\ \E n \in Keys(arch) : Get(arch, n).criticality = "medium"

\* ---- unknown component
\* the dependency targets that name no component
Dangling(a) ==
  UNION {Range(a[i].depends_on) : i \in 1..Len(a)} \ Keys(a)

PostFailure == {"failure_done", "security_done", "reporting_done", "report_returned",
                "remediated"}

\* C6: in the pipeline the unknown-component error is unreachable: every name
\* the scenario selector returns is a component, and every simulation of the
\* failure stage succeeds.
C6_PipelineNeverUnknown ==
  /\ pc # "raised"
  /\ \A i \in 1..Len(scenario_ids) : scenario_ids[i] \in Keys(arch)
  /\ pc \in PostFailure =>
       /\ Len(scenarios) = Len(scenario_ids)
       /\ \A i \in 1..Len(scenarios) : scenarios[i].failed_component = scenario_ids[i]

\* a failure stage done on two or more scenarios of an architecture with a
\* dangling dependency
C6_Witness ==
  /\ pc = "failure_done"
  /\ Len(scenario_ids) >= 2
  /\ Dangling(arch) # {}

\* ---- graphs
IsBuilt == ret.kind = "build_dependency_graphs" /\ ret.out.raised = "none"

\* C7: the forward graph's keys are exactly the component names and the
\* reverse graph's keys include every component name.
C7_GraphKeySets ==
  ret.kind = "build_dependency_graphs" =>
    /\ ret.out.raised = "none"
    /\ DOMAIN ret.out.value.forward = Keys(arch)
    /\ Keys(arch) \subseteq DOMAIN ret.out.value.reverse

\* graphs in which one component has an empty entry in both and another does not
C7_Witness ==
  /\ IsBuilt
  /\ \E n \in Keys(arch) :
       ret.out.value.forward[n] = <<>> /\ ret.out.value.reverse[n] = <<>>
  /\ \E m \in Keys(arch) : ret.out.value.forward[m] # <<>>

\* C8: a dangling depends_on entry raises no error in graph building or in the
\* pipeline; the target is a key of the reverse graph listing the components
\* that declared it, is no key of the forward graph, and the finished run holds
\* a report with one scenario per selected component and the risks found.
C8_DanglingIsPhantom ==
  /\ ret.kind = "build_dependency_graphs" =>
       /\ ret.out.raised = "none"
       /\ \A t \in Dangling(arch) :
            /\ t \in DOMAIN ret.out.value.reverse
            /\ t \notin DOMAIN ret.out.value.forward
            /\ Range(ret.out.value.reverse[t]) = {n \in Keys(arch) : DependsOn(arch, n, t)}
  /\ Dangling(arch) # {} =>
       /\ pc # "raised"
       /\ (ret.kind = "simulate_failure" /\ ret.failed_component \in Keys(arch)) =>
            ret.out.raised = "none"
       /\ pc = "report_returned" =>
            /\ report.kind = "SystemReport"
            /\ Len(report.scenarios) = Len(generate_failure_scenarios(arch))
            /\ Len(report.scenarios) >= 1
            /\ report.security_risks = analyze_security(arch)

\* a finished run on an architecture with a dangling dependency
C8_Witness ==
  /\ pc = "report_returned"
  /\ Dangling(arch) # {}
  /\ report.kind = "SystemReport"
  /\ Len(report.scenarios) >= 2

\* ---- scenario selection
Pos(a, n) == CHOOSE i \in 1..Len(a) : a[i].name = n

\* C9: the scenario selector returns exactly the components of a critical type,
\* in insertion order, or all components in insertion order when there is none;
\* its list is non-empty for a non-empty architecture.
C9_ScenarioSelection ==
  pc \in PostFailure =>
    LET crit == {n \in Keys(arch) : Get(arch, n).ctype \in CriticalTypeSet}
    IN /\ Range(scenario_ids) = IF crit # {} THEN crit ELSE Keys(arch)
       /\ \A k, l \in 1..Len(scenario_ids) :
            k < l => Pos(arch, scenario_ids[k]) < Pos(arch, scenario_ids[l])
       /\ Len(arch) > 0 => scenario_ids # <<>>

\* a selection of the first and third component, the second not being critical
C9_Witness ==
  /\ pc = "failure_done"
  /\ Len(arch) = 3
  /\ arch[2].ctype \notin CriticalTypeSet
  /\ scenario_ids = <<arch[1].name, arch[3].name>>

\* ---- security rules
RuleTable(c) ==
  << [cond |-> c.public /\ c.ctype \in {"gateway", "service", "web_client"},
      risk_type |-> "Denial-of-Service", severity |-> "High"],
     [cond |-> c.public /\ c.ctype = "database",
      risk_type |-> "Data Exposure", severity |-> "High"],
     [cond |-> c.ctype = "external_api",
      risk_type |-> "External Dependency Risk", severity |-> "Medium"] >>

RisksOfComponent(c) ==
  LET rows == SelectSeq(RuleTable(c), LAMBDA r : r.cond)
  IN [k \in 1..Len(rows) |->
        [component |-> c.name, risk_type |-> rows[k].risk_type,
         severity |-> rows[k].severity]]

RECURSIVE RefRisks(_, _)
RefRisks(a, i) ==
  IF i > Len(a) THEN <<>> ELSE RisksOfComponent(a[i]) \o RefRisks(a, i + 1)

PostSecurity == {"security_done", "reporting_done", "report_returned", "remediated"}

\* C10: analyze_security returns exactly the risks of the rule table, in
\* component order; a public database yields exactly one risk, Data Exposure
\* of severity High.
C10_SecurityRuleTable ==
  pc \in PostSecurity =>
    /\ [k \in 1..Len(security_risks) |->
          [component |-> security_risks[k].component,
           risk_type |-> security_risks[k].risk_type,
           severity |-> security_risks[k].severity]] = RefRisks(arch, 1)
    /\ \A i \in 1..Len(arch) :
         (arch[i].public /\ arch[i].ctype = "database") =>
           \E k \in 1..Len(security_risks) :
             /\ security_risks[k].component = arch[i].name
             /\ security_risks[k].risk_type = "Data Exposure"
             /\ security_risks[k].severity = "High"
             /\ \A l \in 1..Len(security_risks) :
                  security_risks[l].component = arch[i].name => l = k

\* risks of three components, a public database among them
C10_Witness ==
  /\ pc = "security_done"
  /\ Len(security_risks) = 3
  /\ \E i \in 1..Len(arch) : arch[i].public /\ arch[i].ctype = "database"
  /\ \E i \in 1..Len(arch) : arch[i].ctype = "external_api"

\* ---- uniqueness of risks
NoDuplicateRisk(risks) ==
  \A k, l \in 1..Len(risks) :
    (/\ risks[k].component = risks[l].component
     /\ risks[k].risk_type = risks[l].risk_type) => k = l

\* C11: the list of the security analysis, and the security_risks of the
\* report, never hold two risks with the same component and risk type.
C11_NoDuplicateRisks ==
  /\ pc \in PostSecurity => NoDuplicateRisk(security_risks)
  /\ report # None => NoDuplicateRisk(report.security_risks)

\* a report with risks of one type on two components and a risk of another type
C11_Witness ==
  /\ report # None
  /\ Len(report.security_risks) = 3
  /\ report.security_risks[1].risk_type = report.security_risks[2].risk_type
  /\ report.security_risks[3].risk_type # report.security_risks[1].risk_type

\* ---- report aggregation
Abs(x) == IF x < 0 THEN 0 - x ELSE x

\* r hundredths is the fraction num / den of hundredths rounded to two
\* decimals: a nearest value, the even one of two nearest values
IsRounded(r, num, den) ==
  /\ 2 * Abs(r * den - num) <= den
  /\ 2 * Abs(r * den - num) = den => r % 2 = 0

\* C12: with scenarios, overall_resilience_score is 10 minus the mean severity,
\* clamped to [0, 10] and rounded to two decimals, and worst_case_severity is
\* the largest severity; without scenarios they are 10.0 and 0.0; both scores
\* lie in [0, 10].
C12_ReportScores ==
  report # None =>
    LET scs == report.scenarios
        n == Len(scs)
        total == SumSeverity(scs, 1)
        clamped == IF 1000 * n - total < 0 THEN 0
                   ELSE IF 1000 * n - total > 1000 * n THEN 1000 * n
                   ELSE 1000 * n - total
    IN /\ scs = scenarios
       /\ n > 0 => /\ IsRounded(report.overall_resilience_score, clamped, n)
                   /\ \E k \in 1..n : scs[k].severity = report.worst_case_severity
                   /\ \A k \in 1..n : scs[k].severity <= report.worst_case_severity
       /\ n = 0 => /\ report.overall_resilience_score = 1000
                   /\ report.worst_case_severity = 0
       /\ report.overall_resilience_score \in 0..1000
       /\ report.worst_case_severity \in 0..1000

\* a report of four scenarios whose mean severity lies halfway between two
\* values of two decimals
C12_Witness ==
  /\ report # None
  /\ Len(report.scenarios) = 4
  /\ 2 * ((4000 - SumSeverity(report.scenarios, 1)) % 4) = 4
  /\ \E k, l \in 1..4 : report.scenarios[k].severity # report.scenarios[l].severity

\* a report without scenarios
C12_WitnessEmpty ==
  /\ report # None
  /\ report.scenarios = <<>>

\* ---- remediation
\* the suggestions a pass appended, in list order
SuggestionsOfPass(p) ==
  LET idx == SelectSeq([k \in 1..Len(passes) |-> k], LAMBDA k : passes[k] = p)
  IN [j \in 1..Len(idx) |-> suggestions[idx[j]]]

IsSystemSuggestion(s) ==
  /\ s.category = "resilience"
  /\ s.target = "system"
  /\ s.priority = "high"
  /\ s.title = <<"Improve overall fault tolerance">>

C13_WitnessAbove ==
  /\ pc = "remediated"
  /\ rem_call.report.overall_resilience_score \in 401..450
  /\ Len(SuggestionsOfPass(1)) = 0
  /\ Len(suggestions) > 0

\* the priority and the title of the scenario suggestion for a component
TemplateOf(ctype, n) ==
  CASE ctype = "database" ->
         [priority |-> "high", title |-> <<"Add replication and backup for", n>>]
    [] ctype = "gateway" ->
         [priority |-> "high", title |-> <<"Eliminate single point of failure at", n>>]
    [] ctype = "external_api" ->
         [priority |-> "high",
          title |-> <<"Introduce circuit breakers and fallbacks for", n>>]
    [] OTHER ->
         [priority |-> "medium", title |-> <<"Harden", n, "against failures">>]

\* the scenarios of the report passed that call for a suggestion
SevereScenarios ==
  SelectSeq(rem_call.report.scenarios,
            LAMBDA sc : /\ sc.severity >= 800
                        /\ \E i \in 1..Len(arch) : arch[i].name = sc.failed_component)

\* C14: the rule engine emits one resilience suggestion, targeting the failed
\* component, for each scenario of severity 8.0 or more whose component is in
\* the architecture, and none for any other scenario; priority and wording
\* follow the component's type, every type other than database, gateway and
\* external_api getting the medium hardening suggestion; a scenario of an
\* unknown component is skipped and the call returns.
C14_ScenarioSuggestions ==
  /\ pc = "remediated" =>
       LET emitted == SuggestionsOfPass(2)
       IN /\ Len(emitted) = Len(SevereScenarios)
          /\ \A k \in 1..Len(emitted) :
               LET n == SevereScenarios[k].failed_component
                   template == TemplateOf(arch[Pos(arch, n)].ctype, n)
               IN /\ emitted[k].category = "resilience"
                  /\ emitted[k].target = n
                  /\ emitted[k].priority = template.priority
                  /\ emitted[k].title = template.title
          /\ \A sc \in Range(rem_call.report.scenarios) :
               Cardinality({k \in 1..Len(emitted) :
                              emitted[k].target = sc.failed_component})
                 = IF sc \in Range(SevereScenarios) THEN 1 ELSE 0
  /\ rem_call # None => pc = "remediated"

\* a queue whose scenario has severity exactly 8.0, next to a scenario below it
C14_Witness ==
  /\ pc = "remediated"
  /\ \E k \in 1..Len(suggestions) :
       /\ passes[k] = 2
       /\ suggestions[k].priority = "medium"
       /\ arch[Pos(arch, suggestions[k].target)].ctype = "queue"
       /\ \E sc \in Range(rem_call.report.scenarios) :
            sc.failed_component = suggestions[k].target /\ sc.severity = 800
  /\ \E sc \in Range(rem_call.report.scenarios) : sc.severity < 800

\* a report with a scenario of a component the architecture lacks
C14_WitnessForeign ==
  /\ pc = "remediated"
  /\ \E sc \in Range(rem_call.report.scenarios) :
       sc.failed_component \notin Keys(arch) /\ sc.severity >= 800
  /\ Len(SuggestionsOfPass(2)) > 0

\* suggestions of the three high-priority templates
C14_WitnessTemplates ==
  /\ pc = "remediated"
  /\ \E k \in 1..Len(suggestions) :
       /\ passes[k] = 2
       /\ arch[Pos(arch, suggestions[k].target)].ctype = "external_api"
       /\ suggestions[k].priority = "high"

\* C15: the rule engine emits one suggestion per risk of the report, in the
\* order of the risks: category security, target the risk's component,
\* priority high for a risk of severity High and medium otherwise, details the
\* risk's suggestion text; the rule-based suggestions of category security are
\* as many as the risks.
C15_SecuritySuggestions ==
  pc = "remediated" =>
    LET emitted == SuggestionsOfPass(3)
        risks == rem_call.report.security_risks
    IN /\ Len(emitted) = Len(risks)
       /\ \A k \in 1..Len(emitted) :
            /\ emitted[k].category = "security"
            /\ emitted[k].target = risks[k].component
            /\ emitted[k].priority = IF risks[k].severity = "High" THEN "high"
                                     ELSE "medium"
            /\ emitted[k].details = <<risks[k].suggestion>>
       /\ Cardinality({k \in 1..Len(suggestions) :
                         passes[k] \in {1, 2, 3} /\ suggestions[k].category = "security"})
            = Len(risks)

\* a report with a risk of severity High and a risk of severity Medium
C15_Witness ==
  /\ pc = "remediated"
  /\ \E k, l \in 1..Len(rem_call.report.security_risks) :
       /\ rem_call.report.security_risks[k].severity = "High"
       /\ rem_call.report.security_risks[l].severity = "Medium"
  /\ \E k \in 1..Len(suggestions) : passes[k] = 3 /\ suggestions[k].priority = "high"
  /\ \E k \in 1..Len(suggestions) : passes[k] = 3 /\ suggestions[k].priority = "medium"

\* the position in the report passed of the scenario of a failed component
ScenarioPos(n) ==
  CHOOSE i \in 1..Len(rem_call.report.scenarios) :
    rem_call.report.scenarios[i].failed_component = n

\* C16: the returned list is ordered by pass: the system suggestion first,
\* then the scenario suggestions in the order of report.scenarios, then the
\* security suggestions in the order of report.security_risks, then the
\* additions of the collaborator; none of a later pass precedes one of an
\* earlier pass.
C16_OrderedByPass ==
  pc = "remediated" =>
    LET risks == rem_call.report.security_risks
        before == Cardinality({k \in 1..Len(passes) : passes[k] \in {1, 2}})
    IN /\ \A k, l \in 1..Len(passes) : k < l => passes[k] <= passes[l]
       /\ \A k \in 1..Len(passes) : passes[k] = 1 => k = 1
       /\ \A k, l \in 1..Len(passes) :
            (k < l /\ passes[k] = 2 /\ passes[l] = 2) =>
              ScenarioPos(suggestions[k].target) < ScenarioPos(suggestions[l].target)
       /\ \A j \in 1..Len(risks) :
            /\ before + j <= Len(passes)
            /\ passes[before + j] = 3
            /\ suggestions[before + j].title =
                 <<"Mitigate", risks[j].risk_type, "on", risks[j].component>>
       /\ \A k, l \in 1..Len(suggestions) :
            (k < l /\ passes[l] # 4) =>
              ~(suggestions[k].category = "security"
                  /\ suggestions[l].category = "resilience")

\* a list with the system suggestion, two scenario suggestions, two security
\* suggestions and additions of the collaborator
C16_Witness ==
  /\ pc = "remediated"
  /\ \A p \in 1..4 : \E k \in 1..Len(passes) : passes[k] = p
  /\ Cardinality({k \in 1..Len(passes) : passes[k] = 2}) >= 2
  /\ Cardinality({k \in 1..Len(passes) : passes[k] = 3}) >= 2

\* ---- failures of the advisory collaborator
\* the collaborator cannot be constructed, or its call raises
AdvisoryRaises(llm) ==
  llm.available /\ (llm.construct = "raises" \/ llm.response = "raises")

\* the collaborator answers with text that is no JSON, or no JSON list
AdvisoryMalformed(llm) ==
  llm.available /\ llm.construct = "ok" /\ llm.response \in {"malformed", "object"}

\* the steps RemediationAgent.run has logged, in order
RemediationSteps ==
  LET own == SelectSeq(events, LAMBDA e : e.agent_name = "remediation_agent")
  IN [k \in 1..Len(own) |-> own[k].step]

\* the number of suggestions of passes 1 to 3
RuleBasedCount ==
  (IF rem_call.report.overall_resilience_score <= 400 THEN 1 ELSE 0)
    + Len(SevereScenarios) + Len(rem_call.report.security_risks)

\* the call has returned the rule-based suggestions and nothing else
OnlyRuleBased ==
  /\ pc = "remediated"
  /\ \A k \in 1..Len(passes) : passes[k] # 4
  /\ Len(suggestions) = RuleBasedCount
  /\ shared_state["remediation_suggestion_count"] = RuleBasedCount

C17_WitnessMalformed ==
  /\ pc = "remediated"
  /\ rem_call.llm.response = "malformed"
  /\ Len(suggestions) >= 2
  /\ RemediationSteps = <<"start", "llm_enhanced", "done">>

\* ---- additions of the advisory collaborator
AdvisoryDefaults ==
  [category |-> "resilience", target |-> "system", priority |-> "medium",
   title |-> <<"AI-suggested remediation">>, details |-> <<"">>]

\* the objects the collaborator of the call returned
AdvisoryObjects ==
  IF /\ rem_call.llm.available
     /\ rem_call.llm.construct = "ok"
     /\ rem_call.llm.response = "array"
    THEN SelectSeq(rem_call.llm.items, LAMBDA d : d.t = "dict")
    ELSE <<>>

\* C18: every object the collaborator returns becomes one suggestion, in
\* order; a field the object holds is copied unchanged, a field it lacks gets
\* its default: category "resilience", target "system", priority "medium",
\* title "AI-suggested remediation", details "".
C18_AdvisoryDefaults ==
  pc = "remediated" =>
    LET added == SuggestionsOfPass(4)
    IN /\ Len(added) = Len(AdvisoryObjects)
       /\ \A k \in 1..Len(added) :
            /\ DOMAIN added[k] = DOMAIN AdvisoryDefaults
            /\ \A f \in DOMAIN AdvisoryDefaults :
                 added[k][f] = IF f \in DOMAIN AdvisoryObjects[k].v
                                 THEN AdvisoryObjects[k].v[f]
                                 ELSE AdvisoryDefaults[f]

\* additions made from an empty object, a complete object and a partial one
C18_Witness ==
  /\ pc = "remediated"
  /\ \E k \in 1..Len(AdvisoryObjects) :
       DOMAIN AdvisoryObjects[k].v = {} /\ SuggestionsOfPass(4)[k] = AdvisoryDefaults
  /\ \E k \in 1..Len(AdvisoryObjects) :
       /\ DOMAIN AdvisoryObjects[k].v = DOMAIN AdvisoryDefaults
       /\ SuggestionsOfPass(4)[k].category = "architecture"
  /\ \E k \in 1..Len(AdvisoryObjects) :
       /\ DOMAIN AdvisoryObjects[k].v = {"priority"}
       /\ SuggestionsOfPass(4)[k].priority = "high"
       /\ SuggestionsOfPass(4)[k].target = "system"

\* ---- order of the stages
Stages == <<"failure_simulation_agent", "security_analysis_agent", "reporting_agent",
            "remediation_agent">>

\* the positions in the event log of an agent's step
Idx(agent_name, step) == {k \in 1..Len(events) : events[k] = Event(agent_name, step)}

Once(agent_name, step) == Cardinality(Idx(agent_name, step)) = 1

At(agent_name, step) == CHOOSE k \in Idx(agent_name, step) : TRUE

\* C19: a run executes failure simulation, security analysis and report
\* aggregation in this order and then, called by the caller, remediation, none
\* skipped; in the event log of the context every stage has its start before
\* its done, every stage's done before the next stage's start, and the
\* orchestrator's start and done around the first three stages.
C19_StageOrder ==
  /\ \A j \in 1..3 :
       Idx(Stages[j + 1], "start") # {} =>
         /\ Idx(Stages[j], "done") # {}
         /\ At(Stages[j], "done") < At(Stages[j + 1], "start")
  /\ pc \in {"report_returned", "remediated"} =>
       /\ \A j \in 1..3 :
            /\ Once(Stages[j], "start")
            /\ Once(Stages[j], "done")
            /\ At(Stages[j], "start") < At(Stages[j], "done")
       /\ Once("orchestrator_agent", "start")
       /\ Once("orchestrator_agent", "done")
       /\ At("orchestrator_agent", "start") < At(Stages[1], "start")
       /\ At(Stages[3], "done") < At("orchestrator_agent", "done")
       /\ report # None
  /\ pc = "report_returned" => Idx(Stages[4], "start") = {}
  /\ pc = "remediated" =>
       /\ Once(Stages[4], "start")
       /\ Once(Stages[4], "done")
       /\ At("orchestrator_agent", "done") < At(Stages[4], "start")
       /\ At(Stages[4], "start") < At(Stages[4], "done")
       /\ At(Stages[4], "done") = Len(events)

\* the log of a finished run: ten start and done events and the event of the
\* collaborator
C19_Witness ==
  /\ pc = "remediated"
  /\ Len(events) = 11
  /\ Len(scenarios) >= 2
  /\ Len(suggestions) >= 2

\* ---- the context does not influence the results
\* the scenario of a failed component, from the architecture alone
RefScenario(a, n) ==
  LET imp == ImpactClosure(a, n)
      flag == \E m \in imp : Get(a, m).public
  IN [scenario_name |-> <<n, "FAILURE">>,
      failed_component |-> n,
      severity |-> RefSeverity(a, imp, flag),
      user_visible_impact |-> flag,
      impacted_components |-> Sorted(imp)]

\* the scenarios of the report, from the architecture alone
RefScenarios(a) ==
  LET crit == SelectSeq([i \in 1..Len(a) |-> a[i].name],
                        LAMBDA n : Get(a, n).ctype \in CriticalTypeSet)
      ids == IF crit = <<>> THEN [i \in 1..Len(a) |-> a[i].name] ELSE crit
  IN [k \in 1..Len(ids) |-> RefScenario(a, ids[k])]

\* category, target, priority and title of the rule-based suggestions, from
\* the architecture and the report passed
RefRuleBased ==
  LET rep == rem_call.report
      system == IF rep.overall_resilience_score <= 400
                  THEN << [category |-> "resilience", target |-> "system",
                           priority |-> "high",
                           title |-> <<"Improve overall fault tolerance">>] >>
                  ELSE <<>>
      scenario == [k \in 1..Len(SevereScenarios) |->
                     LET n == SevereScenarios[k].failed_component
                         template == TemplateOf(arch[Pos(arch, n)].ctype, n)
                     IN [category |-> "resilience", target |-> n,
                         priority |-> template.priority, title |-> template.title]]
      security == [k \in 1..Len(rep.security_risks) |->
                     LET risk == rep.security_risks[k]
                     IN [category |-> "security", target |-> risk.component,
                         priority |-> IF risk.severity = "High" THEN "high"
                                      ELSE "medium",
                         title |-> <<"Mitigate", risk.risk_type, "on",
                                     risk.component>>]]
  IN system \o scenario \o security

\* C20: the report of generate_system_report and the rule-based suggestions
\* of RemediationAgent.run are determined by the architecture alone: they are
\* the same with no context, with a fresh context and with a context that
\* already holds events and shared state; without a context nothing is logged.
C20_ContextIsObservabilityOnly ==
  /\ report # None =>
       LET n == Len(report.scenarios)
           total == SumSeverity(report.scenarios, 1)
       IN /\ report.scenarios = RefScenarios(arch)
          /\ [k \in 1..Len(report.security_risks) |->
                [component |-> report.security_risks[k].component,
                 risk_type |-> report.security_risks[k].risk_type,
                 severity |-> report.security_risks[k].severity]] = RefRisks(arch, 1)
          /\ IF n = 0
               THEN /\ report.overall_resilience_score = 1000
                    /\ report.worst_case_severity = 0
               ELSE /\ IsRounded(report.overall_resilience_score, 1000 * n - total, n)
                    /\ \E k \in 1..n :
                         report.scenarios[k].severity = report.worst_case_severity
                    /\ \A k \in 1..n :
                         report.scenarios[k].severity <= report.worst_case_severity
  /\ pc = "remediated" =>
       /\ rem_call.report = report
       /\ [k \in 1..Len(suggestions) |->
             [category |-> suggestions[k].category, target |-> suggestions[k].target,
              priority |-> suggestions[k].priority, title |-> suggestions[k].title]]
            = RefRuleBased
  /\ context = "none" => events = <<>> /\ DOMAIN shared_state = {}

\* a run without context that returned a report and suggestions
C20_Witness ==
  /\ context = "none"
  /\ pc = "remediated"
  /\ Len(report.scenarios) >= 2
  /\ Len(suggestions) >= 2

\* a run with a context of an earlier run whose score differs from that
\* context's
C20_WitnessUsed ==
  /\ context = "given"
  /\ pc = "remediated"
  /\ events[1] = Event("remediation_agent", "done")
  /\ report.overall_resilience_score # 0
  /\ shared_state["overall_resilience_score"] = report.overall_resilience_score
  /\ Len(suggestions) >= 2

\* ------------------------------------------------------------------ C21
IsPrefix(s, t) == Len(s) <= Len(t) /\ SubSeq(t, 1, Len(s)) = s

\* C21: the event log of a run context is append-only: no step removes,
\* reorders or rewrites an event already recorded, so the log before a step is
\* a prefix of the log after it.
C21_AppendOnly == [][IsPrefix(events, events')]_vars

\* a context that already held an event has been written to by every stage and
\* by the remediation step, and still starts with what it held
C21_Witness ==
  /\ pc = "remediated"
  /\ Len(events) >= 12
  /\ events[1] = Event("remediation_agent", "done")
  /\ events[2] = Event("orchestrator_agent", "start")

\* ------------------------------------------------------------------ C22
\* the value a component field takes when the entry does not give it
FieldDefaults ==
  [type |-> "service", public |-> FALSE, depends_on |-> <<>>, criticality |-> "medium"]

FieldOr(raw, f) == IF f \in DOMAIN raw THEN raw[f] ELSE FieldDefaults[f]

\* nothing of an analysis exists: no stage output, no event, no report, no
\* suggestion, no file
NothingProduced ==
  /\ arch = <<>>
  /\ scenario_ids = <<>> /\ scenarios = <<>> /\ security_risks = <<>>
  /\ report = None
  /\ events = <<>> /\ DOMAIN shared_state = {}
  /\ suggestions = <<>>
  /\ caller.artifacts = {}

\* C22: an entry without a name makes parsing fail fatally: there is no
\* Architecture, the run ends before any stage runs, nothing is logged and no
\* report or suggestion is produced (the caller gets the parse error only);
\* an entry that has a name parses whatever other fields it lacks, each
\* absent field taking its default.
C22_MissingNameIsFatal ==
  /\ ret.kind = "from_dict" =>
        /\ ("name" \notin DOMAIN ret.entry) <=> (pc = "parse_failed")
        /\ "name" \in DOMAIN ret.entry =>
              /\ ret.out.raised = "none"
              /\ ret.out.value =
                   Component(ret.entry.name, FieldOr(ret.entry, "type"),
                             FieldOr(ret.entry, "public"),
                             FieldOr(ret.entry, "depends_on"),
                             FieldOr(ret.entry, "criticality"))
              /\ ret.entry.name \in Keys(arch)
              /\ Get(arch, ret.entry.name) = ret.out.value
  /\ pc = "parse_failed" =>
        /\ ret.kind = "from_dict" /\ ret.out.raised = "KeyError"
        /\ NothingProduced
        /\ caller.stage \in {"started", "aborted"}
        /\ caller.stage = "aborted" =>
              /\ caller.aborted_by = "parse"
              /\ caller.response \in {[kind |-> "traceback"],
                                       [kind |-> "http", status |-> 400]}

\* the second entry of a document gives every field but the name, and the
\* handler has answered with the parse error
C22_Witness ==
  /\ pc = "parse_failed"
  /\ ret.kind = "from_dict"
  /\ DOMAIN ret.entry = FieldNames \ {"name"}
  /\ ret.entry.depends_on = <<NameSeq[3]>>
  /\ caller.entry = "api" /\ caller.stage = "aborted"

\* a document whose last entry gives the name only has been analysed to the end
C22_WitnessDefaults ==
  /\ ret.kind = "from_dict"
  /\ DOMAIN ret.entry = {"name"}
  /\ Len(arch) = MaxFieldComps
  /\ caller.stage = "responded"

\* ------------------------------------------------------------------ C23
\* C23: a failure of the diagram renderer does not abort the run: in the
\* /analyze handler and in main alike, no run ends because
\* generate_architecture_graph_image raised; the run goes on to the document
\* renderer and the remediation step.
C23_DiagramFailureDoesNotAbort ==
  caller.entry \in {"api", "main"} =>
    ~(caller.stage = "aborted" /\ caller.aborted_by = "diagram")

\* ------------------------------------------------------------------ C24
\* C24: a caller of /analyze whose input parses is answered with the complete
\* report and the suggestion list whatever the renderers, the advisory
\* service and the summary service do; the only error answer is the one for
\* input that does not parse, and it carries no report.
C24_ErrorOnlyWhenUnparseable ==
  caller.entry = "api" /\ caller.response # None =>
    IF pc = "parse_failed"
      THEN caller.response = [kind |-> "http", status |-> 400]
      ELSE /\ caller.response.status = 200
           /\ caller.response.failure_scenarios = report.scenarios
           /\ caller.response.security_risks = report.security_risks
           /\ caller.response.remediation_suggestions = suggestions

\* ------------------------------------------------------------------ C25
\* C25: the Architecture is read-only once it is parsed: the graph builder,
\* the scenario selector, the failure simulator, the security rule engine,
\* the report aggregator and the remediation rule engine leave the component
\* map and every depends_on list as they were.
C25_ArchitectureReadOnly == [][pc # "parsing" => arch' = arch]_vars

\* an architecture with a dependency on a name that is no component has been
\* through the graph builder
C25_Witness ==
  /\ ret.kind = "build_dependency_graphs"
  /\ \E i \in 1..Len(arch) : \E j \in 1..Len(arch[i].depends_on) :
        arch[i].depends_on[j] \notin Keys(arch)

\* an architecture with dependencies has been through every stage of the
\* pipeline and through the remediation step
C25_WitnessPipeline ==
  /\ pc = "remediated"
  /\ Len(arch) = 3
  /\ \E i \in 1..Len(arch) : arch[i].depends_on # <<>>

\* ------------------------------------------------------------------ C28
\* C28: every name in impacted_components is a component: a traversal that
\* starts at a component walks the reverse graph, whose lists hold component
\* names only, so a dependency target that is no component is never reached
\* and the component lookup of compute_severity cannot fail inside
\* simulate_failure.
C28_ImpactedAreComponents ==
  /\ ret.kind = "simulate_failure" /\ ret.failed_component \in Keys(arch) =>
        /\ ret.out.raised = "none"
        /\ Range(ret.out.value.impacted_components) \subseteq Keys(arch)
  /\ \A k \in 1..Len(scenarios) :
        Range(scenarios[k].impacted_components) \subseteq Keys(arch)

\* the failed component depends on a name that is no component and has a
\* dependent: the result holds the two components, not the unknown name
C28_Witness ==
  /\ IsSimulated
  /\ ret.failed_component \in Keys(arch)
  /\ Phantom \in Range(Get(arch, ret.failed_component).depends_on)
  /\ Len(ret.out.value.impacted_components) >= 2

\* ------------------------------------------------------------------ C29
\* C29: failure impact is monotone along dependencies: when component A
\* lists component B in depends_on, everything the failure of A impacts is
\* impacted by the failure of B, a user-visible failure of A makes the
\* failure of B user-visible, and the severity of B is at least that of A.
C29_MonotoneAlongDependencies ==
  IsSimulated =>
    LET A == ret.failed_component
        ra == ret.out.value
    IN \A B \in Range(Get(arch, A).depends_on) \cap Keys(arch) :
         \A seed \in HashSeeds :
           LET outB == simulate_failure(arch, B, seed)
           IN /\ outB.raised = "none"
              /\ Range(ra.impacted_components) \subseteq
                   Range(outB.value.impacted_components)
              /\ ra.user_visible_impact => outB.value.user_visible_impact
              /\ outB.value.severity_score >= ra.severity_score

\* A is public and depends on another component B that is not public: the
\* failure of B impacts more and scores strictly higher than that of A
C29_Witness ==
  /\ IsSimulated
  /\ ret.out.value.user_visible_impact
  /\ \E B \in Range(Get(arch, ret.failed_component).depends_on) \cap Keys(arch) :
        /\ B # ret.failed_component
        /\ ~Get(arch, B).public
        /\ LET rb == simulate_failure(arch, B, 0).value
           IN /\ Len(rb.impacted_components) > Len(ret.out.value.impacted_components)
              /\ rb.severity_score > ret.out.value.severity_score

\* A and B depend on each other: both failures impact the same components
C29_WitnessCycle ==
  /\ IsSimulated
  /\ \E B \in Range(Get(arch, ret.failed_component).depends_on) \cap Keys(arch) :
        /\ B # ret.failed_component
        /\ ret.failed_component \in Range(Get(arch, B).depends_on)

\* ------------------------------------------------------------------ C27
NoRepeats(s) == \A i, j \in 1..Len(s) : s[i] = s[j] => i = j

\* C27: simulate_failure terminates on every Architecture, cyclic ones,
\* self-dependencies and duplicate depends_on entries included: a component
\* is added to the impacted set at most once, names are pushed only when a
\* component is added, so the loop runs at most once per dependency entry
\* plus once for the start, and it ends with an empty stack and the result
\* of simulate_failure.
C27_TraversalTerminates ==
  /\ pc = "traversing" =>
        /\ NoRepeats(ret.added)
        /\ Range(ret.added) = ret.impacted
        /\ ret.impacted \subseteq Keys(arch)
        /\ ret.iterations + Len(ret.stack) <= 1 + EdgeCount(arch)
        /\ ret.stack = <<>> =>
              ret.impacted =
                Traverse(ret.reverse_graph, <<ret.failed_component>>, {})
  /\ pc = "returned" /\ ret.kind = "simulate_failure" =>
        /\ NoRepeats(ret.added)
        /\ ret.iterations <= 1 + EdgeCount(arch)
        /\ \E seed \in HashSeeds :
              ret.out = simulate_failure(arch, ret.failed_component, seed)

\* a component lists the failed component twice: it is pushed twice, added
\* once, and the loop has ended after popping it a second time
C27_Witness ==
  /\ pc = "returned" /\ ret.kind = "simulate_failure"
  /\ \E x \in Keys(arch) :
        /\ x # ret.failed_component
        /\ Get(arch, x).depends_on = <<ret.failed_component, ret.failed_component>>
  /\ ret.iterations = 3
  /\ Len(ret.added) = 2

\* two components depend on each other and the loop has ended
C27_WitnessCycle ==
  /\ pc = "returned" /\ ret.kind = "simulate_failure"
  /\ \E x, y \in Keys(arch) : x # y /\ DependsOn(arch, x, y) /\ DependsOn(arch, y, x)
  /\ Len(ret.added) = 2

\* a component depends on itself
C27_WitnessSelf ==
  /\ pc = "returned" /\ ret.kind = "simulate_failure"
  /\ DependsOn(arch, ret.failed_component, ret.failed_component)

\* ------------------------------------------------------------------ C26
HasContext(t) == tasks[t].pc \in {"pipeline", "done"}

EventsOf(t) == heap[tasks[t].proc][tasks[t].context.events]

SharedStateOf(t) == heap[tasks[t].proc][tasks[t].context.shared_state]

\* C26: with several runs in progress at once, each run uses a context it
\* created itself: the event log of a run holds the events of that run's own
\* steps and no others, in pipeline order, its shared_state holds the keys
\* that run has written with that run's values, and two runs of one process
\* never share a list or a dict.
C26_ContextsAreIsolated ==
  \A t \in DOMAIN tasks :
    HasContext(t) =>
      /\ tasks[t].context.run_id = tasks[t].run_id
      /\ Len(EventsOf(t)) = tasks[t].pos
      /\ \A k \in 1..Len(EventsOf(t)) :
            /\ EventsOf(t)[k].details.run = t
            /\ EventsOf(t)[k].agent_name = RunSteps[k].agent_name
            /\ EventsOf(t)[k].step = RunSteps[k].step
      /\ DOMAIN SharedStateOf(t) = UNION {RunSteps[k].writes : k \in 1..tasks[t].pos}
      /\ \A key \in DOMAIN SharedStateOf(t) : SharedStateOf(t)[key].run = t
      /\ \A u \in DOMAIN tasks :
            u # t /\ HasContext(u) /\ tasks[u].proc = tasks[t].proc =>
              {tasks[t].context.events, tasks[t].context.shared_state} \cap
              {tasks[u].context.events, tasks[u].context.shared_state} = {}

\* two requests of one event loop: the first was suspended in its read while
\* the second ran to the end, then the first has run to the end
C26_Witness ==
  /\ \A t \in DOMAIN tasks : tasks[t].proc = 1 /\ tasks[t].pc = "done"
  /\ Len(tasks) >= 2
  /\ tasks[1].run_id = Pad3(1) /\ tasks[2].run_id = Pad3(2)
  /\ tasks[1].context.events > tasks[2].context.events

\* ------------------------------------------------------------------ C30
\* C30: run ids are unique, also for runs started concurrently by several
\* requests or processes: two runs that have each called get_next_run_id and
\* created their directory never hold the same run id.
C30_RunIdsUnique ==
  \A t, u \in DOMAIN tasks :
    t # u /\ tasks[t].pc \notin {"new", "id_taken"}
          /\ tasks[u].pc \notin {"new", "id_taken"} =>
      tasks[t].run_id # tasks[u].run_id
====
